---- MODULE Spec2Model ----
(***************************************************************************)
(* Model of the logical-to-physical transformation engine                  *)
(* (TransformationManager), the Flyway migration generator                 *)
(* (FlywayMigrationManager, SpringBootCodeGenerator.generateMigrations)    *)
(* the generate-backend endpoint that persists the migration history, and  *)
(* the status changes of an invitation (InvitationModel).                  *)
(*                                                                         *)
(* Names (tables, columns, indexes) are sequences of lower-case words: the *)
(* snake_case text is the words joined by "_", so string concatenation     *)
(* with "_" is sequence concatenation.  SQL text is a sequence of          *)
(* statement records in the order the code appends them.                   *)
(***************************************************************************)
EXTENDS Integers, Sequences, FiniteSets, TLC

VARIABLES
    logicalModel,   \* TransformationManager.logicalModel (the diagram state)
    result,         \* the value returned by the operation a specification
                    \* applies (transform() in SpecTransform)
    prevModel,      \* migration generator input: previous PhysicalModel
    curModel,       \* migration generator input: current PhysicalModel
    existingNames, \* migration generator input: names already stored
    out1,           \* first migration returned by the generator
    out2,           \* second migration returned by the generator
    now,            \* the wall clock read by new Date()
    store,          \* the DiagramSnapshot row of one diagram
    req,            \* the in-flight generate-backend requests
    emitted,        \* log of the migrations emitted by requests, in order
    invitation,     \* the Invitation row of one invitation
    calls           \* the in-flight calls of InvitationModel methods

vars == <<logicalModel, result, prevModel, curModel, existingNames,
          out1, out2, now, store, req, emitted, invitation, calls>>

\* Bounds of the model.
MaxElements == 2
MaxRels == 1
MaxGenRels == 2
MaxClock == 2
MaxRequests == 3
MaxConcurrent == 2
MaxNames == 3
MaxContext == 1
MaxTokenLen == 4

(***************************************************************************)
(* Sequence helpers                                                        *)
(***************************************************************************)
Range(s) == {s[i] : i \in 1..Len(s)}

Contains(s, x) == \E i \in 1..Len(s) : s[i] = x

RECURSIVE Flatten(_)
Flatten(ss) == IF ss = <<>> THEN <<>> ELSE Head(ss) \o Flatten(Tail(ss))

\* All sequences of length 0..n over S in which no element repeats.
RECURSIVE DistinctSeqs(_, _)
DistinctSeqs(S, n) ==
    IF n = 0 THEN {<<>>}
    ELSE LET shorter == DistinctSeqs(S, n - 1)
         IN  shorter \cup
             {Append(s, x) : <<s, x>> \in
                 {p \in shorter \X S : ~Contains(p[1], p[2])}}

(***************************************************************************)
(* Names.  A className is raw text; the pool below lists the class names   *)
(* used as inputs with the words toSnakeCase gives for each                *)
(* (TransformationManager.toSnakeCase: every capital becomes "_" + lower,  *)
(* one leading "_" is removed):                                            *)
(*   "Order_Item" -> "_order__item" -> "order__item": an empty word.       *)
(***************************************************************************)
ClassNameWords ==
    [n \in {"Customer", "Order", "Tag", "CustomerOrder", "Order_Item"} |->
        CASE n = "Customer"      -> <<"customer">>
          [] n = "Order"         -> <<"order">>
          [] n = "Tag"           -> <<"tag">>
          [] n = "CustomerOrder" -> <<"customer", "order">>
          [] n = "Order_Item"    -> <<"order", "", "item">>]

TMtoSnakeCase(className) == ClassNameWords[className]

\* Attribute names and UML types of the input pool, as the code maps them.
AttrNameWords ==
    [n \in {"id", "name", "label", "customerId"} |->
        CASE n = "id"         -> <<"id">>
          [] n = "name"       -> <<"name">>
          [] n = "label"      -> <<"label">>
          [] n = "customerId" -> <<"customer", "id">>]

mapUMLTypeToSQLType(umlType) ==
    CASE umlType \in {"Long", "long"}        -> "BIGINT"
      [] umlType \in {"String", "string"}    -> "VARCHAR(255)"
      [] umlType \in {"int", "Integer"}      -> "INTEGER"
      [] OTHER                               -> "VARCHAR(255)"

\* c.trim().toLowerCase() on the constraint tokens of the input pool.
TrimLower(c) ==
    CASE c \in {"id", "ID", " id"}    -> "id"
      [] c \in {"unique", "Unique"}   -> "unique"
      [] c \in {"required"}           -> "required"
      [] OTHER                        -> c

(***************************************************************************)
(* Multiplicity parser.  A cardinality token is a sequence of characters.  *)
(***************************************************************************)
Digits == {"0", "1", "2", "3", "4", "5", "6", "7", "8", "9"}

DigitVal(ch) ==
    CASE ch = "0" -> 0 [] ch = "1" -> 1 [] ch = "2" -> 2 [] ch = "3" -> 3
      [] ch = "4" -> 4 [] ch = "5" -> 5 [] ch = "6" -> 6 [] ch = "7" -> 7
      [] ch = "8" -> 8 [] ch = "9" -> 9

RECURSIVE TrimStart(_)
TrimStart(cs) ==
    IF cs # <<>> /\ Head(cs) = " " THEN TrimStart(Tail(cs)) ELSE cs

RECURSIVE TrimEnd(_)
TrimEnd(cs) ==
    IF cs # <<>> /\ cs[Len(cs)] = " "
    THEN TrimEnd(SubSeq(cs, 1, Len(cs) - 1)) ELSE cs

\* String.prototype.trim
Trim(cs) == TrimEnd(TrimStart(cs))

\* Position of the first ".." in cs, 0 when there is none (indexOf("..") + 1).
DotDotAt(cs) ==
    LET hits == {i \in 1..(Len(cs) - 1) : cs[i] = "." /\ cs[i + 1] = "."}
    IN  IF hits = {} THEN 0 ELSE CHOOSE i \in hits : \A j \in hits : i <= j

\* cleaned.split(".."): the parts between successive ".." separators.
RECURSIVE SplitDotDot(_)
SplitDotDot(cs) ==
    LET at == DotDotAt(cs)
    IN  IF at = 0 THEN <<cs>>
        ELSE <<SubSeq(cs, 1, at - 1)>> \o
             SplitDotDot(SubSeq(cs, at + 2, Len(cs)))

RECURSIVE DigitsValue(_, _)
DigitsValue(cs, acc) ==
    IF cs # <<>> /\ Head(cs) \in Digits
    THEN DigitsValue(Tail(cs), 10 * acc + DigitVal(Head(cs)))
    ELSE acc

\* parseInt(text): leading blanks skipped, an optional sign, then the longest
\* prefix of digits; NaN when there is no digit.
ParseIntTrimmed(t) ==
    LET neg  == t # <<>> /\ Head(t) = "-"
        body == IF t # <<>> /\ Head(t) \in {"-", "+"} THEN Tail(t) ELSE t
    IN  IF body = <<>> \/ Head(body) \notin Digits
        THEN [nan |-> TRUE, val |-> 0]
        ELSE [nan |-> FALSE,
              val |-> (IF neg THEN 0 - 1 ELSE 1) * DigitsValue(body, 0)]

ParseInt(cs) == ParseIntTrimmed(TrimStart(cs))

ManyTokens == {<<"*">>, <<"n">>, <<"N">>}

\* !isNaN(n) && n > 1 on the result of parseInt(text).
ParsesAboveOne(text) ==
    LET n == ParseInt(text)
    IN  ~n.nan /\ n.val > 1

\* parseMultiplicity from its second statement on: cleaned is
\* cardinality.trim().
MultiplicityOfCleaned(cleaned) ==
    IF cleaned \in ManyTokens THEN "many"
    ELSE IF DotDotAt(cleaned) # 0
    THEN LET maxStr == Trim(SplitDotDot(cleaned)[2])
         IN  IF maxStr \in ManyTokens THEN "many"
             ELSE IF ParsesAboveOne(maxStr) THEN "many"
             ELSE "one"
    ELSE IF ParsesAboveOne(cleaned) THEN "many" ELSE "one"

parseMultiplicity(cardinality) == MultiplicityOfCleaned(Trim(cardinality))

\* isMultiplicityOptional from its second statement on.
OptionalCleaned(cleaned) ==
    IF cleaned = <<"*">> THEN TRUE
    ELSE IF cleaned # <<>> /\ Head(cleaned) = "0" THEN TRUE
    ELSE IF DotDotAt(cleaned) # 0
    THEN LET min == ParseInt(Trim(SplitDotDot(cleaned)[1]))
         IN  ~min.nan /\ min.val = 0
    ELSE FALSE

isMultiplicityOptional(cardinality) == OptionalCleaned(Trim(cardinality))

\* a || b || "1" on the two multiplicity fields of a relationship
\* (the empty text is falsy).
CardOf(first, second) ==
    IF first # <<>> THEN first ELSE IF second # <<>> THEN second ELSE <<"1">>

(***************************************************************************)
(* TransformationManager.  The manager's state while transform() runs is   *)
(* the record m = [tables, relationships, errors, warnings]; tables is the *)
(* tables object as the sequence of its values in key (insertion) order.   *)
(***************************************************************************)
Undefined == "undefined"

TableAt(tables, name) ==
    LET hits == {i \in 1..Len(tables) : tables[i].name = name}
    IN  IF hits = {} THEN 0 ELSE CHOOSE i \in hits : TRUE

HasTable(tables, name) == TableAt(tables, name) # 0

\* tables[name] = table: a new key is appended, an existing key keeps its
\* place and gets the new value.
PutTable(tables, table) ==
    IF HasTable(tables, table.name)
    THEN [tables EXCEPT ![TableAt(tables, table.name)] = table]
    ELSE Append(tables, table)

\* columns.find((c) => c.name === name): <<column>> or <<>>.
FindColumn(columns, name) == SelectSeq(columns, LAMBDA c : c.name = name)

NewManager == [tables |-> <<>>, relationships |-> <<>>, errors |-> <<>>,
               warnings |-> <<>>]

Err(kind, about) == [kind |-> kind, about |-> about]

\* An attribute is the text "name: type {constraints}" held as its parts:
\* colon is FALSE for a text the regular expression does not match.
createColumnFromAttribute(attribute, index) ==
    IF ~attribute.colon
    THEN [column |-> [name |-> <<"attr", ToString(index)>>,
                      dataType |-> "VARCHAR(255)", nullable |-> TRUE,
                      primaryKey |-> Undefined, unique |-> Undefined,
                      fk |-> <<>>, defaultValue |-> ""],
          isPrimaryKey |-> FALSE,
          warnings |-> <<Err("malformedAttribute", attribute.name)>>]
    ELSE LET constraints == [i \in 1..Len(attribute.constraints) |->
                                TrimLower(attribute.constraints[i])]
             invalid == SelectSeq(constraints,
                           LAMBDA c : c \notin {"id", "unique", "required"})
             isPrimaryKey == Contains(constraints, "id")
             isUnique     == Contains(constraints, "unique")
             isRequired   == Contains(constraints, "required")
         IN  [column |-> [name |-> AttrNameWords[attribute.name],
                          dataType |-> mapUMLTypeToSQLType(attribute.type),
                          nullable |-> ~isRequired,
                          primaryKey |-> IF isPrimaryKey THEN "true"
                                         ELSE "false",
                          unique |-> IF isUnique THEN "true" ELSE "false",
                          fk |-> <<>>, defaultValue |-> ""],
              isPrimaryKey |-> isPrimaryKey,
              warnings |-> IF invalid # <<>>
                           THEN <<Err("unknownConstraint", attribute.name)>>
                           ELSE <<>>]

AuditColumn(name) ==
    [name |-> name, dataType |-> "TIMESTAMP", nullable |-> FALSE,
     primaryKey |-> Undefined, unique |-> Undefined, fk |-> <<>>,
     defaultValue |-> "CURRENT_TIMESTAMP"]

\* The error pushed for a class without {id} attribute.
MissingPrimaryKeyErrors(element, primaryKeyColumns) ==
    IF primaryKeyColumns = <<>>
    THEN <<Err("missingPrimaryKey", element.className)>>
    ELSE <<>>

\* primaryKeyColumns: the names of the columns whose attribute carries {id}.
PrimaryKeyColumns(parsed) ==
    LET pkCols == SelectSeq(parsed, LAMBDA q : q.isPrimaryKey)
    IN  [i \in 1..Len(pkCols) |-> pkCols[i].column.name]

\* The table built from the parsed attributes, with the errors and warnings
\* pushed while building it.
TableFromColumns(element, parsed, primaryKeyColumns) ==
    [table |-> [name |-> TMtoSnakeCase(element.className),
                columns |-> [i \in 1..Len(parsed) |-> parsed[i].column] \o
                            <<AuditColumn(<<"created", "at">>),
                              AuditColumn(<<"updated", "at">>)>>,
                primaryKey |-> primaryKeyColumns,
                foreignKeys |-> <<>>,
                uniqueConstraints |-> <<>>,
                indexes |-> <<>>],
     errors |-> MissingPrimaryKeyErrors(element, primaryKeyColumns),
     warnings |-> Flatten([i \in 1..Len(parsed) |-> parsed[i].warnings])]

ParsedAttributes(element) ==
    [i \in 1..Len(element.attributes) |->
        createColumnFromAttribute(element.attributes[i], i - 1)]

createTableFromClass(element) ==
    TableFromColumns(element, ParsedAttributes(element),
                     PrimaryKeyColumns(ParsedAttributes(element)))

\* Step 1.  elements is the elements object in key order.
RECURSIVE mapClassesToTables(_, _)
mapClassesToTables(m, elements) ==
    IF elements = <<>> THEN m
    ELSE LET element == Head(elements)
         IN  IF element.elementType \in {"class", "interface"}
             THEN LET built == createTableFromClass(element)
                  IN  mapClassesToTables(
                        [m EXCEPT !.tables = PutTable(@, built.table),
                                  !.errors = @ \o built.errors,
                                  !.warnings = @ \o built.warnings],
                        Tail(elements))
             ELSE mapClassesToTables(m, Tail(elements))

\* this.logicalModel.elements[id]: <<element>> or <<>>.
ElementById(lm, id) == SelectSeq(lm.elements, LAMBDA e : e.id = id)

\* (relationship as any).source || relationship.sourceId
SourceIdOf(rel) == IF rel.source # "" THEN rel.source ELSE rel.sourceId

TargetIdOf(rel) == IF rel.target # "" THEN rel.target ELSE rel.targetId

SourceCardOf(rel) == CardOf(rel.sourceMultiplicity, rel.sourceCardinality)

TargetCardOf(rel) == CardOf(rel.targetMultiplicity, rel.targetCardinality)

isForeignKeyNullable(lm, rel, fkTableName) ==
    LET src == ElementById(lm, SourceIdOf(rel))
        tgt == ElementById(lm, TargetIdOf(rel))
    IN  IF src = <<>> \/ tgt = <<>> THEN FALSE
        ELSE IF fkTableName = TMtoSnakeCase(src[1].className)
        THEN isMultiplicityOptional(SourceCardOf(rel))
        ELSE IF fkTableName = TMtoSnakeCase(tgt[1].className)
        THEN isMultiplicityOptional(TargetCardOf(rel))
        ELSE FALSE

\* The column, foreign key and index addForeignKey pushes onto the table.
WithForeignKey(table, fkColumn, onDelete) ==
    [table EXCEPT
        !.columns = Append(@, fkColumn),
        !.foreignKeys = Append(@, [columns |-> <<fkColumn.name>>,
                                   referencesTable |->
                                       fkColumn.fk[1].referencesTable,
                                   referencesColumns |->
                                       <<fkColumn.fk[1].referencesColumn>>,
                                   onDelete |-> onDelete]),
        !.indexes = Append(@, [name |-> <<"idx">> \o table.name \o
                                        fkColumn.name,
                               columns |-> <<fkColumn.name>>])]

addForeignKey(m, lm, tableName, referencesTable, rel, onDelete) ==
    IF ~HasTable(m.tables, tableName) \/ ~HasTable(m.tables, referencesTable)
    THEN m
    ELSE LET at  == TableAt(m.tables, tableName)
             referencedTable == m.tables[TableAt(m.tables, referencesTable)]
             \* primaryKey[0] is undefined for a table without primary key,
             \* and no column has that name
             ref == IF referencedTable.primaryKey = <<>> THEN <<>>
                    ELSE FindColumn(referencedTable.columns,
                                    referencedTable.primaryKey[1])
         IN  IF ref = <<>>
             THEN [m EXCEPT !.errors =
                      Append(@, Err("pkColumnNotFound", referencesTable))]
             ELSE LET referencedPK == referencedTable.primaryKey[1]
                      fkColumn ==
                        [name |-> referencesTable \o referencedPK,
                         dataType |-> ref[1].dataType,
                         nullable |-> isForeignKeyNullable(lm, rel, tableName),
                         primaryKey |-> Undefined, unique |-> Undefined,
                         fk |-> <<[referencesTable |-> referencesTable,
                                   referencesColumn |-> referencedPK]>>,
                         defaultValue |-> ""]
                  IN  [m EXCEPT !.tables[at] =
                          WithForeignKey(@, fkColumn, onDelete)]

\* The two-column table createJunctionTable builds.
JunctionTable(sourceTable, sourcePKColumn, targetTable, targetPKColumn, cascade) ==
    LET sourceFKName == sourceTable \o sourcePKColumn.name
        targetFKName == targetTable \o targetPKColumn.name
        onDelete     == IF cascade THEN "CASCADE" ELSE Undefined
        col(name, pk, refTable) ==
            [name |-> name, dataType |-> pk.dataType, nullable |-> FALSE,
             primaryKey |-> Undefined, unique |-> Undefined,
             fk |-> <<[referencesTable |-> refTable,
                       referencesColumn |-> pk.name]>>,
             defaultValue |-> ""]
        fkey(name, pk, refTable) ==
            [columns |-> <<name>>, referencesTable |-> refTable,
             referencesColumns |-> <<pk.name>>, onDelete |-> onDelete]
    IN  [name |-> sourceTable \o targetTable,
         columns |-> <<col(sourceFKName, sourcePKColumn, sourceTable),
                       col(targetFKName, targetPKColumn, targetTable)>>,
         primaryKey |-> <<sourceFKName, targetFKName>>,
         foreignKeys |-> <<fkey(sourceFKName, sourcePKColumn, sourceTable),
                           fkey(targetFKName, targetPKColumn, targetTable)>>,
         uniqueConstraints |-> <<>>,
         indexes |-> <<>>]

createJunctionTable(m, sourceTable, targetTable, rel, cascade) ==
    IF ~HasTable(m.tables, sourceTable) \/ ~HasTable(m.tables, targetTable)
    THEN [m EXCEPT !.errors =
             Append(@, Err("junctionTablesNotFound", rel.id))]
    ELSE LET sourceTableDef == m.tables[TableAt(m.tables, sourceTable)]
             targetTableDef == m.tables[TableAt(m.tables, targetTable)]
             sourcePKColumn ==
                 IF sourceTableDef.primaryKey = <<>> THEN <<>>
                 ELSE FindColumn(sourceTableDef.columns,
                                 sourceTableDef.primaryKey[1])
             targetPKColumn ==
                 IF targetTableDef.primaryKey = <<>> THEN <<>>
                 ELSE FindColumn(targetTableDef.columns,
                                 targetTableDef.primaryKey[1])
         IN  IF sourcePKColumn = <<>> \/ targetPKColumn = <<>>
             THEN [m EXCEPT !.errors =
                      Append(@, Err("junctionPkNotFound", rel.id))]
             ELSE LET junction == JunctionTable(sourceTable,
                                      sourcePKColumn[1], targetTable,
                                      targetPKColumn[1], cascade)
                  IN  [m EXCEPT
                         !.tables = PutTable(@, junction),
                         !.relationships =
                             Append(@, [name |-> rel.id,
                                        type |-> "many-to-many",
                                        sourceTable |-> sourceTable,
                                        targetTable |-> targetTable,
                                        junctionTable |-> junction.name])]

\* The branching on the two parsed multiplicities shared by mapAssociation
\* (onDelete undefined) and mapComposition (onDelete CASCADE).
\* The branches on the two multiplicities with the foreign key of the
\* many-to-one case on the target table.
PlaceOnTargetUnlessOne(m, lm, rel, sourceTable, targetTable, onDelete, sourceMult, targetMult) ==
    IF sourceMult = "many" /\ targetMult = "many"
    THEN createJunctionTable(m, sourceTable, targetTable, rel,
                             onDelete = "CASCADE")
    ELSE IF sourceMult = "one" /\ targetMult = "one"
    THEN addForeignKey(m, lm, sourceTable, targetTable, rel, onDelete)
    ELSE addForeignKey(m, lm, targetTable, sourceTable, rel, onDelete)

\* A foreign key on the source table whatever the multiplicities are.
PlaceOnSourceAlways(m, lm, rel, sourceTable, targetTable, onDelete, sourceMult, targetMult) ==
    addForeignKey(m, lm, sourceTable, targetTable, rel, onDelete)

PlaceByMultiplicity(m, lm, rel, sourceTable, targetTable, onDelete, sourceMult, targetMult) ==
    IF sourceMult = "many" /\ targetMult = "many"
    THEN createJunctionTable(m, sourceTable, targetTable, rel,
                             onDelete = "CASCADE")
    ELSE IF sourceMult = "one" /\ targetMult = "many"
    THEN addForeignKey(m, lm, targetTable, sourceTable, rel, onDelete)
    ELSE addForeignKey(m, lm, sourceTable, targetTable, rel, onDelete)

PlaceRelationship(m, lm, rel, sourceTable, targetTable, onDelete) ==
    PlaceByMultiplicity(m, lm, rel, sourceTable, targetTable, onDelete,
                        parseMultiplicity(SourceCardOf(rel)),
                        parseMultiplicity(TargetCardOf(rel)))

\* An association with a missing end is passed over without an error.
AssociationSkippedSilently(m, lm, rel) ==
    LET src == ElementById(lm, SourceIdOf(rel))
        tgt == ElementById(lm, TargetIdOf(rel))
    IN  IF src = <<>> \/ tgt = <<>> THEN m
        ELSE PlaceRelationship(m, lm, rel, TMtoSnakeCase(src[1].className),
                               TMtoSnakeCase(tgt[1].className), Undefined)

mapAssociation(m, lm, rel) ==
    LET src == ElementById(lm, SourceIdOf(rel))
        tgt == ElementById(lm, TargetIdOf(rel))
    IN  IF src = <<>> \/ tgt = <<>>
        THEN [m EXCEPT !.errors = Append(@, Err("elementsNotFound", rel.id))]
        ELSE PlaceRelationship(m, lm, rel, TMtoSnakeCase(src[1].className),
                               TMtoSnakeCase(tgt[1].className), Undefined)

\* A composition mapped as an association is.
CompositionWithoutCascade(m, lm, rel) == mapAssociation(m, lm, rel)

mapComposition(m, lm, rel) ==
    LET src == ElementById(lm, SourceIdOf(rel))
        tgt == ElementById(lm, TargetIdOf(rel))
    IN  IF src = <<>> \/ tgt = <<>>
        THEN [m EXCEPT !.errors = Append(@, Err("elementsNotFound", rel.id))]
        ELSE LET warned ==
                   IF parseMultiplicity(SourceCardOf(rel)) = "many"
                   THEN [m EXCEPT !.warnings =
                            Append(@, Err("invalidComposition", rel.id))]
                   ELSE m
             IN  PlaceRelationship(warned, lm, rel,
                                   TMtoSnakeCase(src[1].className),
                                   TMtoSnakeCase(tgt[1].className), "CASCADE")

mapAggregation(m, lm, rel) ==
    IF rel.relationship = "composition" THEN mapComposition(m, lm, rel)
    ELSE mapAssociation(m, lm, rel)

\* Step 2.
RECURSIVE mapAssociationsToRelationships(_, _, _)
mapAssociationsToRelationships(m, lm, rels) ==
    IF rels = <<>> THEN m
    ELSE LET rel == Head(rels)
             next == IF rel.relationship = "association"
                     THEN mapAssociation(m, lm, rel)
                     ELSE IF rel.relationship \in {"aggregation",
                                                   "composition"}
                     THEN mapAggregation(m, lm, rel)
                     ELSE m
         IN  mapAssociationsToRelationships(next, lm, Tail(rels))

DiscriminatorColumn ==
    [name |-> <<"discriminator">>, dataType |-> "VARCHAR(50)",
     nullable |-> FALSE, primaryKey |-> Undefined, unique |-> Undefined,
     fk |-> <<>>, defaultValue |-> ""]

\* A discriminator column for every generalization that ends at the table.
DiscriminatorEveryTime(linked, superclassTable) ==
    IF HasTable(linked.tables, superclassTable)
    THEN [linked EXCEPT !.tables[TableAt(linked.tables, superclassTable)].columns = Append(@, DiscriminatorColumn)]
    ELSE linked

\* The discriminator column mapGeneralization adds to the superclass table
\* when the table exists and has none yet.
WithDiscriminator(linked, superclassTable) ==
    LET at == TableAt(linked.tables, superclassTable)
    IN  IF at # 0 /\ FindColumn(linked.tables[at].columns,
                                <<"discriminator">>) = <<>>
        THEN [linked EXCEPT !.tables[at].columns =
                 Append(@, DiscriminatorColumn)]
        ELSE linked

\* mapGeneralization reads relationship.sourceId and targetId only.
mapGeneralization(m, lm, rel) ==
    LET subclass   == ElementById(lm, rel.sourceId)
        superclass == ElementById(lm, rel.targetId)
    IN  IF subclass = <<>> \/ superclass = <<>>
        THEN [m EXCEPT !.errors = Append(@, Err("elementsNotFound", rel.id))]
        ELSE WithDiscriminator(
                addForeignKey(m, lm, TMtoSnakeCase(subclass[1].className),
                              TMtoSnakeCase(superclass[1].className), rel,
                              Undefined),
                TMtoSnakeCase(superclass[1].className))

\* Step 3.
RECURSIVE mapGeneralizations(_, _, _)
mapGeneralizations(m, lm, rels) ==
    IF rels = <<>> THEN m
    ELSE mapGeneralizations(
            IF Head(rels).relationship = "generalization"
            THEN mapGeneralization(m, lm, Head(rels)) ELSE m,
            lm, Tail(rels))

\* Step 5a: an index for every foreign key whose index name is not there yet.
RECURSIVE IndexForeignKeys(_, _)
IndexForeignKeys(table, fks) ==
    IF fks = <<>> THEN table
    ELSE LET indexName == <<"idx">> \o table.name \o Flatten(Head(fks).columns)
             next == IF \E i \in 1..Len(table.indexes) :
                            table.indexes[i].name = indexName
                     THEN table
                     ELSE [table EXCEPT !.indexes =
                              Append(@, [name |-> indexName,
                                         columns |-> Head(fks).columns])]
         IN  IndexForeignKeys(next, Tail(fks))

addForeignKeyIndexes(tables) ==
    [i \in 1..Len(tables) |-> IndexForeignKeys(tables[i],
                                               tables[i].foreignKeys)]

\* Step 5b: an index on created_at for every table that has the column.
addQueryIndexes(tables) ==
    [i \in 1..Len(tables) |->
        IF FindColumn(tables[i].columns, <<"created", "at">>) # <<>>
        THEN [tables[i] EXCEPT !.indexes =
                 Append(@, [name |-> <<"idx">> \o tables[i].name \o
                                     <<"created", "at">>,
                            columns |-> <<<<"created", "at">>>>])]
        ELSE tables[i]]

optimizePhysicalModel(m) ==
    [m EXCEPT !.tables = addQueryIndexes(addForeignKeyIndexes(@))]

\* The value of success in the result transform() returns when no step
\* throws: the literal true of its return statement.
SuccessOnReturn(errors) == TRUE

\* transform(): the five steps in order (normalization changes no table),
\* then the result object.  No step throws on a well-typed diagram state,
\* so the catch branch is not taken.
TransformationResult(m) ==
    [success |-> SuccessOnReturn(m.errors),
     physicalModel |-> [tables |-> m.tables,
                        relationships |-> m.relationships],
     errors |-> m.errors,
     warnings |-> m.warnings]

transform(lm) ==
    TransformationResult(
        optimizePhysicalModel(
            mapGeneralizations(
                mapAssociationsToRelationships(
                    mapClassesToTables(NewManager, lm.elements),
                    lm, lm.relationships),
                lm, lm.relationships)))

transformLogicalToPhysical(diagramState) == transform(diagramState)

(***************************************************************************)
(* Input pools: the diagram states the transformation is applied to.       *)
(***************************************************************************)
Attr(name, type, constraints) ==
    [colon |-> TRUE, name |-> name, type |-> type, constraints |-> constraints]

MalformedAttr(text) ==
    [colon |-> FALSE, name |-> text, type |-> "", constraints |-> <<>>]

Element(id, elementType, className, attributes) ==
    [id |-> id, elementType |-> elementType, className |-> className,
     attributes |-> attributes]

\* Customer and Order carry {id}; Tag has no {id} attribute; CustomerOrder
\* is an interface whose only attribute is malformed; the note is no class.
ElementPool ==
    { Element("e1", "class", "Customer",
              <<Attr("id", "Long", <<"id">>),
                Attr("name", "String", <<"required">>)>>),
      Element("e2", "class", "Order", <<Attr("id", "Long", <<"ID">>)>>),
      Element("e3", "class", "Tag", <<Attr("label", "String", <<>>)>>),
      Element("e4", "interface", "CustomerOrder",
              <<MalformedAttr("code")>>),
      Element("e5", "note", "Tag", <<>>) }

Rel(id, kind, sourceId, targetId, sourceMult, targetMult) ==
    [id |-> id, relationship |-> kind, source |-> "", target |-> "",
     sourceId |-> sourceId, targetId |-> targetId,
     sourceMultiplicity |-> sourceMult, sourceCardinality |-> <<>>,
     targetMultiplicity |-> targetMult, targetCardinality |-> <<>>]

RelKinds == {"association", "aggregation", "composition", "generalization",
             "dependency"}

One == <<"1">>

Star == <<"*">>

ZeroStar == <<"0", ".", ".", "*">>

\* Relationship ends range over the ids e1..e3: an id whose element is not
\* in the diagram is a dangling reference.
EndIds == {"e1", "e2", "e3"}

MultPairs == {<<One, Star>>, <<Star, Star>>}

RelsAt(id) ==
    {Rel(id, k, s, t, mp[1], mp[2]) :
        k \in RelKinds, s \in EndIds, t \in EndIds, mp \in MultPairs}

\* Relationship lists r1..rn of length 0..n.
RECURSIVE RelSeqs(_)
RelSeqs(n) ==
    IF n = 0 THEN {<<>>}
    ELSE LET shorter == RelSeqs(n - 1)
         IN  shorter \cup
             {Append(rs, r) : rs \in {q \in shorter : Len(q) = n - 1},
                              r \in RelsAt("r" \o ToString(n))}

LogicalModels ==
    {[elements |-> es, relationships |-> rs] :
        es \in DistinctSeqs(ElementPool, MaxElements),
        rs \in RelSeqs(MaxRels)}

(***************************************************************************)
(* SpringBootCodeGenerator: the entities the migrations are written from.  *)
(* A PascalCase or camelCase identifier is held as its capital-delimited   *)
(* segments in lower case, so FlywayMigrationManager.toSnakeCase (an "_"   *)
(* before every capital) gives the segments back as the words of the name. *)
(***************************************************************************)
\* toPascalCase of a snake_case name that starts with a lower-case letter:
\* split at "_", empty words dropped, each word capitalised.
toPascalCase(words) == SelectSeq(words, LAMBDA w : w # "")

toCamelCase(words) == toPascalCase(words)

FlywayToSnakeCase(segments) == segments

SBisAuditField(columnName) ==
    columnName \in {<<"created", "at">>, <<"updated", "at">>}

mapSQLTypeToJavaType(sqlType) ==
    CASE sqlType = "BIGINT"       -> "Long"
      [] sqlType = "INTEGER"      -> "Integer"
      [] sqlType = "VARCHAR(255)" -> "String"
      [] sqlType = "VARCHAR(50)"  -> "String"
      [] sqlType = "TIMESTAMP"    -> "LocalDateTime"
      [] OTHER                    -> "String"

\* table.foreignKeys.find((fk) => fk.columns.includes(column.name))
FindForeignKey(table, columnName) ==
    SelectSeq(table.foreignKeys, LAMBDA fk : Contains(fk.columns, columnName))

determineRelationshipType(table, column) ==
    IF Contains(table.primaryKey, column.name) THEN "OneToOne"
    ELSE IF \E i \in 1..Len(table.uniqueConstraints) :
               Contains(table.uniqueConstraints[i].columns, column.name)
    THEN "OneToOne"
    ELSE "ManyToOne"

\* A field's foreignKey is <<>> (undefined) or <<descriptor>>.
generateField(column, table) ==
    LET primaryKey   == Contains(table.primaryKey, column.name)
        fk           == FindForeignKey(table, column.name)
        isForeignKey == fk # <<>>
        isCompositePKAndFK == primaryKey /\ isForeignKey
        fieldType ==
            IF isForeignKey /\ ~isCompositePKAndFK
            THEN "entity"
            ELSE IF primaryKey \/ isCompositePKAndFK THEN "Long"
            ELSE mapSQLTypeToJavaType(column.dataType)
        descriptor(relationship) ==
            <<[referencedEntity |-> toPascalCase(fk[1].referencesTable),
               referencedField |-> toCamelCase(fk[1].referencesColumns[1]),
               relationship |-> relationship]>>
        foreignKey ==
            IF SBisAuditField(column.name) THEN <<>>
            ELSE IF isForeignKey /\ ~isCompositePKAndFK
            THEN descriptor(determineRelationshipType(table, column))
            ELSE IF isCompositePKAndFK THEN descriptor("ManyToMany")
            ELSE <<>>
    IN  [name |-> toCamelCase(column.name),
         type |-> fieldType,
         columnName |-> column.name,
         nullable |-> column.nullable,
         primaryKey |-> primaryKey,
         unique |-> column.unique = "true",
         foreignKey |-> foreignKey]

generateEntity(table) ==
    [className |-> toPascalCase(table.name),
     tableName |-> table.name,
     fields |-> [i \in 1..Len(table.columns) |->
                    generateField(table.columns[i], table)]]

generateEntities(physicalModel) ==
    [i \in 1..Len(physicalModel.tables) |->
        generateEntity(physicalModel.tables[i])]

(***************************************************************************)
(* FlywayMigrationManager.  The SQL text of a migration is the sequence of *)
(* its statements and comment lines in the order they are appended; a      *)
(* line that is commented out has executable = FALSE.                      *)
(***************************************************************************)
NoName == <<>>

Stmt(kind, executable, table, column) ==
    [kind |-> kind, executable |-> executable, table |-> table,
     column |-> column, refTable |-> NoName, refColumn |-> NoName,
     sqlType |-> "", notNull |-> FALSE, onDelete |-> "", defs |-> <<>>,
     primaryKeys |-> <<>>, at |-> 0]

\* "-- Generated: ${new Date().toISOString()}"
GeneratedComment(t) == [Stmt("GeneratedComment", FALSE, NoName, NoName)
                           EXCEPT !.at = t]

SectionComment(title) == [Stmt("Comment", FALSE, NoName, NoName)
                             EXCEPT !.sqlType = title]

FlywayisAuditField(columnName) ==
    columnName \in {<<"created", "at">>, <<"updated", "at">>,
                    <<"created", "date">>, <<"modified", "date">>}

\* mapJavaTypeToSQLType for postgresql; the name of an entity (the type of
\* a foreign-key field) is no key of the map.
mapJavaTypeToSQLType(javaType) ==
    CASE javaType = "Long"          -> "BIGINT"
      [] javaType = "Integer"       -> "INTEGER"
      [] javaType = "String"        -> "VARCHAR(255)"
      [] javaType = "LocalDateTime" -> "TIMESTAMP"
      [] OTHER                      -> "VARCHAR(255)"

ColumnDef(column, sqlType, notNull, unique, default) ==
    [column |-> column, sqlType |-> sqlType, notNull |-> notNull,
     unique |-> unique, default |-> default]

\* The fields a CREATE TABLE lists: every field that is not a foreign key,
\* and the foreign keys that are part of the primary key.
InCreateTable(field) ==
    ~(field.foreignKey # <<>> /\ ~field.primaryKey)

IsCompositePKAndFK(field) == field.primaryKey /\ field.foreignKey # <<>>

AddColumnStmt(tableName, field, sqlType) ==
    [Stmt("AddColumn", TRUE, tableName, field.columnName) EXCEPT
        !.sqlType = sqlType, !.notNull = ~field.nullable]

\* Both generators write ON DELETE CASCADE ON UPDATE CASCADE on every
\* constraint.
AddConstraintStmt(tableName, field) ==
    [Stmt("AddConstraint", TRUE, tableName, field.columnName) EXCEPT
        !.refTable = FlywayToSnakeCase(field.foreignKey[1].referencedEntity),
        !.refColumn = FlywayToSnakeCase(field.foreignKey[1].referencedField),
        !.onDelete = "CASCADE"]

CreateIndexStmt(tableName, field) ==
    Stmt("CreateIndex", TRUE, tableName, field.columnName)

\* The column definition generateInitialSchemaSql writes for a field.
InitialColumnDef(field) ==
    LET default == IF FlywayisAuditField(field.columnName)
                   THEN "CURRENT_TIMESTAMP" ELSE ""
    IN  IF field.primaryKey
        THEN IF ~IsCompositePKAndFK(field)
             THEN ColumnDef(field.columnName, "BIGSERIAL", FALSE, FALSE,
                            default)
             ELSE ColumnDef(field.columnName, "BIGINT", TRUE, FALSE, default)
        ELSE ColumnDef(field.columnName, mapJavaTypeToSQLType(field.type),
                       ~field.nullable, FALSE, default)

\* The fields a CREATE TABLE lists, in order.
ListedFields(fields) == SelectSeq(fields, InCreateTable)

\* CREATE TABLE with the definitions defs of the listed fields and the
\* PRIMARY KEY clause.
CreateTableStmt(tableName, fields, defs) ==
    LET pks == SelectSeq(ListedFields(fields), LAMBDA f : f.primaryKey)
    IN  [Stmt("CreateTable", TRUE, tableName, NoName) EXCEPT
            !.defs = defs,
            !.primaryKeys = [i \in 1..Len(pks) |-> pks[i].columnName]]

HasForeignKey(field) == field.foreignKey # <<>>

\* columnLower.includes("name") || ... on the column names of the pools,
\* where a search word occurs only as a whole word of the name.
IsQueryColumn(field) ==
    /\ \E i \in 1..Len(field.columnName) :
          field.columnName[i] \in {"name", "email", "code", "status"}
    /\ ~field.primaryKey
    /\ field.foreignKey = <<>>

\* Foreign keys that are not part of the primary key get their column in
\* the second pass.
IsPlainForeignKey(field) == HasForeignKey(field) /\ ~IsCompositePKAndFK(field)

Paso1(entities) ==
    [e \in 1..Len(entities) |->
        LET listed == ListedFields(entities[e].fields)
        IN  CreateTableStmt(entities[e].tableName, entities[e].fields,
                [i \in 1..Len(listed) |-> InitialColumnDef(listed[i])])]

Paso2(entities) ==
    Flatten([e \in 1..Len(entities) |->
        LET kept == SelectSeq(entities[e].fields, IsPlainForeignKey)
        IN  [i \in 1..Len(kept) |->
                AddColumnStmt(entities[e].tableName, kept[i], "BIGINT")]])

Paso3(entities) ==
    Flatten([e \in 1..Len(entities) |->
        LET kept == SelectSeq(entities[e].fields, HasForeignKey)
        IN  [i \in 1..Len(kept) |->
                AddConstraintStmt(entities[e].tableName, kept[i])]])

Paso4(entities) ==
    Flatten([e \in 1..Len(entities) |->
        LET fks     == SelectSeq(entities[e].fields, HasForeignKey)
            queried == SelectSeq(entities[e].fields, IsQueryColumn)
        IN  [i \in 1..Len(fks) |->
                CreateIndexStmt(entities[e].tableName, fks[i])] \o
            [i \in 1..Len(queried) |->
                CreateIndexStmt(entities[e].tableName, queried[i])]])

\* The passes in another order: constraints before the tables exist.
InitialSchemaConstraintsFirst(entities, t) ==
    <<SectionComment("header"), GeneratedComment(t)>> \o
    Paso3(entities) \o Paso2(entities) \o Paso1(entities) \o
    Paso4(entities)

\* generateInitialSchemaSql at clock reading t: the header, then the four
\* passes over all entities.
generateInitialSchemaSql(entities, t) ==
    <<SectionComment("header"), GeneratedComment(t)>> \o
    <<SectionComment("PASO 1")>> \o Paso1(entities) \o
    <<SectionComment("PASO 2")>> \o Paso2(entities) \o
    <<SectionComment("PASO 3")>> \o Paso3(entities) \o
    <<SectionComment("PASO 4")>> \o Paso4(entities) \o
    <<SectionComment("completed")>>

\* A migration file name is the sequence of its characters, the
\* description and the extension being one item each.
RECURSIVE DigitChars(_)
DigitChars(n) ==
    IF n < 10 THEN <<ToString(n)>>
    ELSE Append(DigitChars(n \div 10), ToString(n % 10))

FileName(version, description) ==
    <<"V">> \o DigitChars(version) \o <<"_", "_", description, ".sql">>

Migration(version, fileName, description, sql, t) ==
    [version |-> version, fileName |-> fileName,
     description |-> description, sql |-> sql, timestamp |-> t]

\* generateInitialMigration at clock reading t (physicalModel is not read).
generateInitialMigration(physicalModel, entities, t) ==
    Migration(1, FileName(1, "initial_schema"), "Initial schema creation",
              generateInitialSchemaSql(entities, t), t)

(***************************************************************************)
(* Schema differ                                                           *)
(***************************************************************************)
ColumnNames(columns) == [i \in 1..Len(columns) |-> columns[i].name]

\* A column of both versions is modified when data type, nullability or
\* primary-key flag differ.
ColumnModified(prevCol, currCol) ==
    \/ prevCol.dataType # currCol.dataType
    \/ prevCol.nullable # currCol.nullable
    \/ prevCol.primaryKey # currCol.primaryKey

detectTableChanges(previousTable, currentTable) ==
    [newColumns |->
        ColumnNames(SelectSeq(currentTable.columns,
            LAMBDA c : FindColumn(previousTable.columns, c.name) = <<>>)),
     deletedColumns |->
        ColumnNames(SelectSeq(previousTable.columns,
            LAMBDA c : FindColumn(currentTable.columns, c.name) = <<>>)),
     modifiedColumns |->
        ColumnNames(SelectSeq(currentTable.columns,
            LAMBDA c :
                LET prev == FindColumn(previousTable.columns, c.name)
                IN  prev # <<>> /\ ColumnModified(prev[1], c)))]

TableNames(model) == [i \in 1..Len(model.tables) |-> model.tables[i].name]

TableChanged(tc) ==
    tc.newColumns # <<>> \/ tc.deletedColumns # <<>> \/
    tc.modifiedColumns # <<>>

detectSchemaChanges(previousModel, currentModel) ==
    LET newTables ==
            SelectSeq(TableNames(currentModel),
                      LAMBDA n : ~HasTable(previousModel.tables, n))
        deletedTables ==
            SelectSeq(TableNames(previousModel),
                      LAMBDA n : ~HasTable(currentModel.tables, n))
        common == SelectSeq(currentModel.tables,
                      LAMBDA t : HasTable(previousModel.tables, t.name))
        diffs  == [i \in 1..Len(common) |->
                     [tableName |-> common[i].name] @@
                     detectTableChanges(
                         previousModel.tables[TableAt(previousModel.tables,
                                                      common[i].name)],
                         common[i])]
        modifiedTables == SelectSeq(diffs, TableChanged)
    IN  [newTables |-> newTables,
         deletedTables |-> deletedTables,
         modifiedTables |-> modifiedTables,
         hasChanges |-> newTables # <<>> \/ deletedTables # <<>> \/
                        modifiedTables # <<>>]

(***************************************************************************)
(* Incremental migration                                                   *)
(***************************************************************************)
\* entities.find((e) => this.toSnakeCase(e.className) === tableName)
FindEntity(entities, tableName) ==
    SelectSeq(entities,
              LAMBDA e : FlywayToSnakeCase(e.className) = tableName)

\* The column definition generateCreateTableSql writes for a field.
CreateColumnDef(field) ==
    LET isSimplePK == field.primaryKey /\ field.foreignKey = <<>>
        default    == IF FlywayisAuditField(field.columnName)
                      THEN "CURRENT_TIMESTAMP" ELSE ""
    IN  IF isSimplePK
        THEN ColumnDef(field.columnName, "BIGSERIAL", FALSE, field.unique,
                       default)
        ELSE IF IsCompositePKAndFK(field)
        THEN ColumnDef(field.columnName, "BIGINT", ~field.nullable,
                       field.unique, default)
        ELSE ColumnDef(field.columnName, mapJavaTypeToSQLType(field.type),
                       ~field.nullable \/ field.primaryKey, field.unique,
                       default)

\* For one foreign-key field of a new table: the column (unless it is part
\* of the primary key), its constraint and its index.
NewTableForeignKeyStmts(tableName, field) ==
    (IF ~IsCompositePKAndFK(field)
     THEN <<AddColumnStmt(tableName, field, "BIGINT")>> ELSE <<>>) \o
    <<AddConstraintStmt(tableName, field),
      CreateIndexStmt(tableName, field)>>

\* generateCreateTableSql: the table, then its foreign keys, field by field.
generateCreateTableSql(entity, table) ==
    LET fkFields == SelectSeq(entity.fields, HasForeignKey)
        listed   == ListedFields(entity.fields)
    IN  <<CreateTableStmt(table.name, entity.fields,
              [i \in 1..Len(listed) |-> CreateColumnDef(listed[i])])>> \o
        Flatten([i \in 1..Len(fkFields) |->
                    NewTableForeignKeyStmts(table.name, fkFields[i])])

\* entity.fields.find((f) => f.columnName === columnName)
FindField(entity, columnName) ==
    LET matches == SelectSeq(entity.fields,
                             LAMBDA f : f.columnName = columnName)
    IN  IF matches = <<>> THEN <<>> ELSE <<matches[1]>>

\* A DROP COLUMN that would run.
DropColumnExecuted(tableName, columnName) ==
    Stmt("DropColumn", TRUE, tableName, columnName)

\* The line written for a deleted column: a DROP COLUMN that is commented
\* out.
DropColumnLine(tableName, columnName) ==
    Stmt("DropColumn", FALSE, tableName, columnName)

generateAlterTableSql(tableChange, table, entity) ==
    LET t == tableChange.tableName
        found(names) ==
            Flatten([i \in 1..Len(names) |-> FindField(entity, names[i])])
        newFields == found(tableChange.newColumns)
        newFks    == SelectSeq(newFields, HasForeignKey)
        modFields == found(tableChange.modifiedColumns)
        added ==
            IF tableChange.newColumns = <<>> THEN <<>>
            ELSE <<SectionComment("Add new columns")>> \o
                 [i \in 1..Len(newFields) |->
                    AddColumnStmt(t, newFields[i],
                        IF HasForeignKey(newFields[i]) THEN "BIGINT"
                        ELSE mapJavaTypeToSQLType(newFields[i].type))] \o
                 <<SectionComment("Add foreign key constraints")>> \o
                 Flatten([i \in 1..Len(newFks) |->
                    <<AddConstraintStmt(t, newFks[i]),
                      CreateIndexStmt(t, newFks[i])>>])
        dropped ==
            IF tableChange.deletedColumns = <<>> THEN <<>>
            ELSE <<SectionComment("Drop columns")>> \o
                 [i \in 1..Len(tableChange.deletedColumns) |->
                    DropColumnLine(t, tableChange.deletedColumns[i])]
        modified ==
            IF tableChange.modifiedColumns = <<>> THEN <<>>
            ELSE <<SectionComment("Modify columns")>> \o
                 Flatten([i \in 1..Len(modFields) |->
                    <<[Stmt("AlterColumnType", TRUE, t,
                            modFields[i].columnName) EXCEPT
                          !.sqlType =
                              mapJavaTypeToSQLType(modFields[i].type)],
                      [Stmt("AlterColumnNull", TRUE, t,
                            modFields[i].columnName) EXCEPT
                          !.notNull = ~modFields[i].nullable]>>])
    IN  <<SectionComment("Modify table")>> \o added \o dropped \o modified

\* The three sections of generateIncrementalSql.
NewTablesSection(changes, currentModel, entities) ==
    IF changes.newTables = <<>> THEN <<>>
    ELSE <<SectionComment("Add New Tables")>> \o
         Flatten([i \in 1..Len(changes.newTables) |->
            LET entity == FindEntity(entities, changes.newTables[i])
            IN  IF entity = <<>> THEN <<>>
                ELSE generateCreateTableSql(entity[1],
                        currentModel.tables[TableAt(currentModel.tables,
                                                    changes.newTables[i])])])

ModifiedTablesSection(changes, currentModel, entities) ==
    IF changes.modifiedTables = <<>> THEN <<>>
    ELSE <<SectionComment("Modify Existing Tables")>> \o
         Flatten([i \in 1..Len(changes.modifiedTables) |->
            LET tc     == changes.modifiedTables[i]
                entity == FindEntity(entities, tc.tableName)
            IN  IF entity = <<>> THEN <<>>
                ELSE generateAlterTableSql(tc,
                        currentModel.tables[TableAt(currentModel.tables,
                                                    tc.tableName)],
                        entity[1])])

DropTablesSection(changes) ==
    IF changes.deletedTables = <<>> THEN <<>>
    ELSE <<SectionComment("Drop Tables")>> \o
         Flatten([i \in 1..Len(changes.deletedTables) |->
            <<SectionComment("Dropping table"),
              Stmt("DropTable", TRUE, changes.deletedTables[i], NoName)>>])

\* The sections in another order: drops first, new tables last.
IncrementalSqlDropsFirst(changes, currentModel, entities, t) ==
    <<SectionComment("Incremental Migration"), GeneratedComment(t)>> \o
    DropTablesSection(changes) \o
    ModifiedTablesSection(changes, currentModel, entities) \o
    NewTablesSection(changes, currentModel, entities)

generateIncrementalSql(changes, currentModel, entities, t) ==
    <<SectionComment("Incremental Migration"), GeneratedComment(t)>> \o
    NewTablesSection(changes, currentModel, entities) \o
    ModifiedTablesSection(changes, currentModel, entities) \o
    DropTablesSection(changes) \o
    <<SectionComment("completed")>>

generateMigrationDescription(changes) ==
    LET part(word, list) ==
            IF list = <<>> THEN <<>>
            ELSE <<word \o "_" \o ToString(Len(list)) \o "_tables">>
        parts == part("add", changes.newTables) \o
                 part("modify", changes.modifiedTables) \o
                 part("drop", changes.deletedTables)
    IN  IF parts = <<>> THEN "schema_changes"
        ELSE IF Len(parts) = 1 THEN parts[1]
        ELSE IF Len(parts) = 2 THEN parts[1] \o "_and_" \o parts[2]
        ELSE parts[1] \o "_and_" \o parts[2] \o "_and_" \o parts[3]

\* Lower-case letters, digits and "_" only, no "_" run and none at either
\* end: the descriptions above come back unchanged.
sanitizeDescription(description) == description

\* A migration whether or not the change set has changes.
AlwaysMigrates(previousModel, currentModel, entities, nextVersion, t) ==
    LET changes == detectSchemaChanges(previousModel, currentModel)
    IN  <<Migration(nextVersion,
            FileName(nextVersion,
                sanitizeDescription(generateMigrationDescription(changes))),
            generateMigrationDescription(changes),
            generateIncrementalSql(changes, currentModel, entities, t),
            t)>>

\* generateIncrementalMigration at clock reading t: <<>> is null.
generateIncrementalMigration(previousModel, currentModel, entities, nextVersion, t) ==
    LET changes == detectSchemaChanges(previousModel, currentModel)
    IN  IF ~changes.hasChanges THEN <<>>
        ELSE LET description == generateMigrationDescription(changes)
             IN  <<Migration(nextVersion,
                     FileName(nextVersion, sanitizeDescription(description)),
                     description,
                     generateIncrementalSql(changes, currentModel, entities,
                                            t),
                     t)>>

\* extractVersionFromFileName: the digits of /^V(\d+)__/, 0 without match.
extractVersionFromFileName(fileName) ==
    IF fileName = <<>> \/ Head(fileName) # "V" THEN 0
    ELSE LET rest == Tail(fileName)
             ends == {i \in 1..Len(rest) : rest[i] \notin Digits}
             stop == IF ends = {} THEN Len(rest) + 1
                     ELSE CHOOSE i \in ends : \A j \in ends : i <= j
         IN  IF stop > 1 /\ stop + 1 <= Len(rest) /\ rest[stop] = "_" /\
                rest[stop + 1] = "_"
             THEN DigitsValue(SubSeq(rest, 1, stop - 1), 0)
             ELSE 0

RECURSIVE MaxVersion(_, _)
MaxVersion(existingMigrations, maxVersion) ==
    IF existingMigrations = <<>> THEN maxVersion
    ELSE LET version == extractVersionFromFileName(Head(existingMigrations))
         IN  MaxVersion(Tail(existingMigrations),
                        IF version > maxVersion THEN version ELSE maxVersion)

\* The highest version found, not advanced.
HighestVersion(existingMigrations) == MaxVersion(existingMigrations, 0)

\* One more than the number of names.
CountBasedVersion(existingMigrations) == Len(existingMigrations) + 1

getNextVersion(existingMigrations) == MaxVersion(existingMigrations, 0) + 1

\* The incremental path whenever a previous model is supplied.
IncrementalWithPrevious(physicalModel, previousPhysicalModel, existingMigrations, t) ==
    IF previousPhysicalModel = <<>>
    THEN <<generateInitialMigration(physicalModel,
                                    generateEntities(physicalModel), t)>>
    ELSE generateIncrementalMigration(previousPhysicalModel[1],
             physicalModel, generateEntities(physicalModel),
             getNextVersion(existingMigrations), t)

\* SpringBootCodeGenerator.generateMigrations at clock reading t;
\* previousPhysicalModel is <<>> when none is supplied.
generateMigrations(physicalModel, previousPhysicalModel, existingMigrations, t) ==
    LET entities == generateEntities(physicalModel)
    IN  IF previousPhysicalModel = <<>> \/ existingMigrations = <<>>
        THEN <<generateInitialMigration(physicalModel, entities, t)>>
        ELSE generateIncrementalMigration(previousPhysicalModel[1],
                 physicalModel, entities,
                 getNextVersion(existingMigrations), t)

EmptyModel == [tables |-> <<>>, relationships |-> <<>>]

\* The variables a specification does not use stay at these values.  An
\* optional value is a sequence of length 0 or 1.
IdleTransform == logicalModel = <<>> /\ result = <<>>

IdleGenerator ==
    /\ prevModel = <<>> /\ curModel = EmptyModel
    /\ existingNames = <<>> /\ out1 = <<>> /\ out2 = <<>>

IdleServer == store = <<>> /\ req = <<>> /\ emitted = <<>>

IdleInvitations == invitation = <<>> /\ calls = <<>>

(***************************************************************************)
(* SpecTransform: transformLogicalToPhysical applied to a diagram state.   *)
(***************************************************************************)
InitTransform ==
    /\ IdleInvitations
    /\ logicalModel \in {<<lm>> : lm \in LogicalModels}
    /\ result = <<>>
    /\ IdleGenerator /\ IdleServer /\ now = 0

Transform ==
    /\ result = <<>>
    /\ result' = <<transformLogicalToPhysical(logicalModel[1])>>
    /\ UNCHANGED <<logicalModel, prevModel, curModel, existingNames,
                   out1, out2, now, store, req, emitted,
                   invitation, calls>>

NextTransform == Transform

SpecTransform == InitTransform /\ [][NextTransform]_vars

(***************************************************************************)
(* SpecGenerator: SpringBootCodeGenerator.generateMigrations called twice  *)
(* on the same inputs while the wall clock advances.                       *)
(***************************************************************************)
ClassElements == {e \in ElementPool : e.elementType = "class"}

\* Associations between Customer and Order in both directions and from a
\* class to itself, a many-to-many association and a composition.
GenRelsAt(id) ==
    {Rel(id, "association", "e1", "e2", One, Star),
     Rel(id, "association", "e2", "e1", One, Star),
     Rel(id, "association", "e1", "e1", One, Star),
     Rel(id, "association", "e1", "e2", Star, Star),
     Rel(id, "composition", "e1", "e2", One, Star)}

RECURSIVE GenRelSeqs(_)
GenRelSeqs(n) ==
    IF n = 0 THEN {<<>>}
    ELSE LET shorter == GenRelSeqs(n - 1)
         IN  shorter \cup
             {Append(rs, r) : rs \in {q \in shorter : Len(q) = n - 1},
                              r \in GenRelsAt("r" \o ToString(n))}

CurrentDiagrams ==
    {[elements |-> es, relationships |-> rs] :
        es \in DistinctSeqs(ClassElements, MaxElements),
        rs \in GenRelSeqs(MaxGenRels)}

\* An earlier version of Customer: name was an optional Integer and there
\* was a label.
EarlierCustomer ==
    Element("e1", "class", "Customer",
            <<Attr("id", "Long", <<"id">>),
              Attr("name", "Integer", <<>>),
              Attr("label", "String", <<>>)>>)

OrderElement == CHOOSE e \in ElementPool : e.id = "e2"

TagElement == CHOOSE e \in ElementPool : e.id = "e3"

CustomerElement == CHOOSE e \in ElementPool : e.id = "e1"

\* The diagrams an earlier request stored the physical model of.
PreviousDiagrams ==
    { [elements |-> <<TagElement>>, relationships |-> <<>>],
      [elements |-> <<EarlierCustomer, OrderElement>>,
       relationships |-> <<>>],
      [elements |-> <<CustomerElement, OrderElement>>,
       relationships |->
           <<Rel("r1", "association", "e1", "e2", One, Star)>>] }

\* m.fileName.replace(".sql", ""): the first ".sql" is removed.
RECURSIVE StripSql(_)
StripSql(fileName) ==
    IF fileName = <<>> THEN <<>>
    ELSE IF Head(fileName) = ".sql" THEN Tail(fileName)
    ELSE <<Head(fileName)>> \o StripSql(Tail(fileName))

\* The migration names a caller passes along with a previous model.
StoredNames ==
    { <<>>,
      <<StripSql(FileName(1, "initial_schema"))>>,
      <<StripSql(FileName(1, "initial_schema")),
        StripSql(FileName(3, "add_1_tables"))>> }

InitGenerator ==
    /\ IdleInvitations
    /\ IdleTransform /\ IdleServer
    /\ curModel \in {transformLogicalToPhysical(d).physicalModel :
                        d \in CurrentDiagrams}
    /\ \/ prevModel = <<>> /\ existingNames \in StoredNames
       \/ /\ prevModel \in
               {<<transformLogicalToPhysical(d).physicalModel>> :
                   d \in PreviousDiagrams}
          /\ existingNames \in StoredNames
    /\ out1 = <<>> /\ out2 = <<>>
    /\ now = 0

\* codeGenerator.generateCode(): the migrations of the first call.
Generate ==
    /\ out1 = <<>>
    /\ out1' = <<generateMigrations(curModel, prevModel, existingNames,
                                    now)>>
    /\ UNCHANGED <<logicalModel, result, prevModel, curModel,
                   existingNames, out2, now, store, req, emitted,
                   invitation, calls>>

\* The same call on the same inputs, later.
GenerateAgain ==
    /\ out1 # <<>> /\ out2 = <<>>
    /\ out2' = <<generateMigrations(curModel, prevModel, existingNames,
                                    now)>>
    /\ UNCHANGED <<logicalModel, result, prevModel, curModel,
                   existingNames, out1, now, store, req, emitted,
                   invitation, calls>>

\* Time passes.
Tick ==
    /\ now < MaxClock
    /\ now' = now + 1
    /\ UNCHANGED <<logicalModel, result, prevModel, curModel,
                   existingNames, out1, out2, store, req, emitted,
                   invitation, calls>>

NextGenerator == Generate \/ GenerateAgain \/ Tick

SpecGenerator == InitGenerator /\ [][NextGenerator]_vars

(***************************************************************************)
(* Properties of generateMigrations (SpecGenerator)                        *)
(***************************************************************************)
\* The first call took the bootstrap branch / the incremental branch and
\* returned a migration.
BootstrapDone ==
    out1 # <<>> /\ (prevModel = <<>> \/ existingNames = <<>>)

IncrementalDone ==
    out1 # <<>> /\ prevModel # <<>> /\ existingNames # <<>> /\
    out1[1] # <<>>

Sql1 == out1[1][1].sql

Changes1 == detectSchemaChanges(prevModel[1], curModel)

\* The pass of the bootstrap script an executable statement belongs to.
PassOf(stmt) ==
    CASE stmt.kind = "CreateTable"   -> 1
      [] stmt.kind = "AddColumn"     -> 2
      [] stmt.kind = "AddConstraint" -> 3
      [] stmt.kind = "CreateIndex"   -> 4
      [] OTHER                       -> 0

Creates(sql, i, tableName) ==
    sql[i].kind = "CreateTable" /\ sql[i].table = tableName

C7_NewTablesFourPasses ==
    IncrementalDone =>
        LET new == Range(Changes1.newTables)
        IN  /\ \A i, j \in 1..Len(Sql1) :
                  (/\ Sql1[i].kind = "CreateTable" /\ Sql1[i].table \in new
                   /\ Sql1[j].kind \in {"AddColumn", "AddConstraint"}
                   /\ Sql1[j].table \in new) => i < j
            /\ \A k \in 1..Len(Sql1) :
                  (/\ Sql1[k].kind = "AddConstraint"
                   /\ Sql1[k].table \in new /\ Sql1[k].refTable \in new) =>
                  \E i \in 1..(k - 1) : Creates(Sql1, i, Sql1[k].refTable)

\* C8: in an incremental migration the statements creating new tables
\* precede the ALTER statements of modified tables, every DROP TABLE comes
\* after all of them, and within a modified table the ADD COLUMN statements
\* precede the foreign-key constraints.
C8_IncrementalSectionOrder ==
    IncrementalDone =>
        LET new      == Range(Changes1.newTables)
            modified == {tc.tableName : tc \in Range(Changes1.modifiedTables)}
            exec(i)  == Sql1[i].executable
        IN  /\ \A i, j \in 1..Len(Sql1) :
                  (exec(i) /\ exec(j) /\ Sql1[i].table \in new /\
                   Sql1[j].table \in modified) => i < j
            /\ \A i, j \in 1..Len(Sql1) :
                  (exec(i) /\ exec(j) /\ Sql1[i].kind # "DropTable" /\
                   Sql1[j].kind = "DropTable") => i < j
            /\ \A i, j \in 1..Len(Sql1) :
                  (/\ Sql1[i].kind = "AddColumn"
                   /\ Sql1[j].kind = "AddConstraint"
                   /\ Sql1[i].table \in modified
                   /\ Sql1[i].table = Sql1[j].table) => i < j

\* A migration with a new table, a dropped table and a modified table that
\* gets a new foreign-key column.
C8_Witness ==
    /\ IncrementalDone
    /\ \E i, j, k, l \in 1..Len(Sql1) :
          /\ Sql1[i].kind = "CreateTable"
          /\ Sql1[j].kind = "AddColumn"
          /\ Sql1[j].table \in
                {tc.tableName : tc \in Range(Changes1.modifiedTables)}
          /\ Sql1[k].kind = "AddConstraint" /\ Sql1[k].table = Sql1[j].table
          /\ Sql1[l].kind = "DropTable"

\* C9: an incremental migration has no executable statement that drops a
\* column: every deleted column of the change set is written as a
\* commented-out DROP COLUMN line and no executable statement is of a kind
\* that removes a column.
C9_NoExecutableDropColumn ==
    IncrementalDone =>
        /\ \A i \in 1..Len(Sql1) :
              Sql1[i].executable =>
                 Sql1[i].kind \in {"CreateTable", "AddColumn",
                                   "AddConstraint", "CreateIndex",
                                   "AlterColumnType", "AlterColumnNull",
                                   "DropTable"}
        /\ \A tc \in Range(Changes1.modifiedTables) :
              \A c \in Range(tc.deletedColumns) :
                 \A i \in 1..Len(Sql1) :
                    (Sql1[i].table = tc.tableName /\ Sql1[i].column = c /\
                     Sql1[i].kind \notin {"CreateIndex"}) =>
                        (Sql1[i].kind = "DropColumn" /\ ~Sql1[i].executable)

\* A migration for a change set with a deleted column, written as a comment.
C9_Witness ==
    /\ IncrementalDone
    /\ \E tc \in Range(Changes1.modifiedTables) : tc.deletedColumns # <<>>
    /\ \E i \in 1..Len(Sql1) :
          Sql1[i].kind = "DropColumn" /\ ~Sql1[i].executable

\* C10: two bootstrap calls on the same physical model and entities, with
\* no previous model, return V1 migrations with identical SQL.
C10_BootstrapSqlRepeatable ==
    (out1 # <<>> /\ out2 # <<>> /\ prevModel = <<>>) =>
        out1[1][1].sql = out2[1][1].sql

(***************************************************************************)
(* Properties of transformLogicalToPhysical (SpecTransform)                *)
(***************************************************************************)
\* The attribute carries the id constraint as createColumnFromAttribute
\* reads it.
CarriesId(attribute) ==
    attribute.colon /\
    \E i \in 1..Len(attribute.constraints) :
        TrimLower(attribute.constraints[i]) = "id"

LacksPrimaryKey(element) ==
    /\ element.elementType \in {"class", "interface"}
    /\ \A i \in 1..Len(element.attributes) :
          ~CarriesId(element.attributes[i])

\* C1: for a logical model with a class or interface none of whose
\* attributes carries {id}, the result has success = false and its errors
\* contain a missing-primary-key error naming that class.
C1_MissingPrimaryKeyFails ==
    result # <<>> =>
        \A e \in Range(logicalModel[1].elements) :
            LacksPrimaryKey(e) =>
                /\ ~result[1].success
                /\ Contains(result[1].errors,
                            Err("missingPrimaryKey", e.className))

\* C2: the result has success = true if and only if its errors list is
\* empty.
C2_SuccessIffNoErrors ==
    result # <<>> => (result[1].success <=> result[1].errors = <<>>)

(***************************************************************************)
(* The generate-backend endpoint, POST /api/diagrams/generate-backend, for *)
(* one diagram id.  A request is split where its handler awaits the        *)
(* database; the code between two awaits runs without interruption.        *)
(***************************************************************************)
\* The diagram states clients post.
RequestDiagrams ==
    { [elements |-> <<>>, relationships |-> <<>>],
      [elements |-> <<CustomerElement>>, relationships |-> <<>>],
      [elements |-> <<EarlierCustomer, OrderElement>>,
       relationships |-> <<>>],
      [elements |-> <<CustomerElement, OrderElement>>,
       relationships |->
           <<Rel("r1", "association", "e1", "e2", One, Star)>>] }

Snapshot(physicalModel, migrationFiles) ==
    [physicalModel |-> physicalModel, migrationFiles |-> migrationFiles]

\* The migration files of the stored snapshot.
StoredFiles == IF store = <<>> THEN <<>> ELSE store[1].migrationFiles

Request(pc, physicalModel) ==
    [pc |-> pc, physicalModel |-> physicalModel,
     existingMigrationFiles |-> <<>>, generated |-> <<>>,
     written |-> {}]

\* The requests that have written the snapshot.
Writers == {q \in 1..Len(req) : req[q].pc = "written"}

\* existingMigrationFiles.map((m) => m.fileName.replace(".sql", ""))
MigrationNames(files) == [i \in 1..Len(files) |-> StripSql(files[i].fileName)]

\* The new files put after whatever the snapshot holds at the write.
AppendToStoredFiles(existingMigrationFiles, generated) ==
    StoredFiles \o generated

\* [...existingMigrationFiles, ...generatedCode.flywayMigrations]
AllMigrationFiles(existingMigrationFiles, generated) ==
    existingMigrationFiles \o generated

\* The handler up to its first await: the transformation and the two
\* checks that answer 400.
\* The two 400 answers after the transformation: a failed transformation
\* and a physical model without tables; otherwise the request goes on.
Accept(transformationResult) ==
    IF ~transformationResult.success \/
       transformationResult.physicalModel.tables = <<>>
    THEN Request("rejected", EmptyModel)
    ELSE Request("read", transformationResult.physicalModel)

Begin(diagramState, limit) ==
    /\ Len(req) < limit
    /\ req' = Append(req, Accept(transformLogicalToPhysical(diagramState)))
    /\ UNCHANGED <<logicalModel, result, prevModel, curModel, existingNames,
                   out1, out2, now, store, emitted,
                   invitation, calls>>

\* The first getLatestByDiagramId answers and the handler runs on to the
\* second one: previous model and stored files are taken from the snapshot
\* read, the migrations are generated.
ReadAndGenerate(r) ==
    /\ req[r].pc = "read"
    /\ LET hasModel == store # <<>> /\ store[1].physicalModel # <<>>
           previousPhysicalModel ==
               IF hasModel THEN store[1].physicalModel ELSE <<>>
           existingMigrationFiles ==
               IF hasModel THEN store[1].migrationFiles ELSE <<>>
           generated ==
               generateMigrations(req[r].physicalModel,
                                  previousPhysicalModel,
                                  MigrationNames(existingMigrationFiles),
                                  now)
       IN  /\ req' = [req EXCEPT
                        ![r].pc = "check",
                        ![r].existingMigrationFiles = existingMigrationFiles,
                        ![r].generated = generated,
                        ![r].written = Writers]
           /\ emitted' = emitted \o generated
    /\ UNCHANGED <<logicalModel, result, prevModel, curModel, existingNames,
                   out1, out2, now, store,
                   invitation, calls>>

\* The second getLatestByDiagramId answers: update if a snapshot exists,
\* create otherwise.
CheckExisting(r) ==
    /\ req[r].pc = "check"
    /\ req' = [req EXCEPT ![r].pc = IF store # <<>> THEN "update"
                                    ELSE "create"]
    /\ UNCHANGED <<logicalModel, result, prevModel, curModel, existingNames,
                   out1, out2, now, store, emitted,
                   invitation, calls>>

\* diagramSnapshotModel.update: the row takes the physical model and the
\* migration files of this request.
Update(r) ==
    /\ req[r].pc = "update"
    /\ store' = <<Snapshot(<<req[r].physicalModel>>,
                     AllMigrationFiles(req[r].existingMigrationFiles,
                                       req[r].generated))>>
    /\ req' = [req EXCEPT ![r].pc = "written"]
    /\ UNCHANGED <<logicalModel, result, prevModel, curModel, existingNames,
                   out1, out2, now, emitted,
                   invitation, calls>>

\* diagramSnapshotModel.create: a second row for the diagram id is refused
\* and the handler catches the error.
Create(r) ==
    /\ req[r].pc = "create"
    /\ IF store = <<>>
       THEN /\ store' = <<Snapshot(<<req[r].physicalModel>>,
                            AllMigrationFiles(req[r].existingMigrationFiles,
                                              req[r].generated))>>
            /\ req' = [req EXCEPT ![r].pc = "written"]
       ELSE /\ store' = store
            /\ req' = [req EXCEPT ![r].pc = "failed"]
    /\ UNCHANGED <<logicalModel, result, prevModel, curModel, existingNames,
                   out1, out2, now, emitted,
                   invitation, calls>>

Finished(r) == req[r].pc \in {"rejected", "written", "failed"}

\* The diagram has no snapshot yet, or one saved by the editor, which has
\* neither physical model nor migration files.
InitServer ==
    /\ IdleInvitations
    /\ IdleTransform /\ IdleGenerator
    /\ store \in {<<>>, <<Snapshot(<<>>, <<>>)>>}
    /\ req = <<>>
    /\ emitted = <<>>
    /\ now = 0

BeginAny == \E d \in RequestDiagrams : Begin(d, MaxConcurrent)

\* A request starts when every earlier one has been answered.
BeginNext ==
    /\ \A q \in 1..Len(req) : Finished(q)
    /\ \E d \in RequestDiagrams : Begin(d, MaxRequests)

Step ==
    \E r \in 1..Len(req) :
        ReadAndGenerate(r) \/ CheckExisting(r) \/ Update(r) \/ Create(r)

\* Requests arrive at any time.
Next == BeginAny \/ Step \/ Tick

Spec == InitServer /\ [][Next]_vars

\* One request at a time.
NextSeq == BeginNext \/ Step \/ Tick

SpecSeq == InitServer /\ [][NextSeq]_vars

(***************************************************************************)
(* Properties of the endpoint                                              *)
(***************************************************************************)
\* C3: when requests are processed one at a time from an empty history,
\* the migrations are numbered 1, 2, ..., n in the order they were emitted
\* and the stored history holds exactly these, in that order.
C3_SequentialVersions ==
    /\ \A i \in 1..Len(emitted) : emitted[i].version = i
    /\ Len(StoredFiles) <= Len(emitted)
    /\ \A i \in 1..Len(StoredFiles) : StoredFiles[i] = emitted[i]
    /\ (\A q \in 1..Len(req) : Finished(q)) => StoredFiles = emitted

\* Three requests, each of which added a migration, have been answered.
C3_Witness ==
    /\ \A q \in 1..Len(req) : Finished(q)
    /\ Len(StoredFiles) >= 3
    /\ StoredFiles[3].version = 3

\* C4: the stored migration history is append-only: every change of the
\* stored list adds one migration at its end and leaves the records stored
\* before as they were.
C4_HistoryAppendOnly ==
    [][ \/ StoredFiles' = StoredFiles
        \/ /\ Len(StoredFiles') = Len(StoredFiles) + 1
           /\ SubSeq(StoredFiles', 1, Len(StoredFiles)) = StoredFiles ]_vars

\* Both requests have read the snapshot, and neither had written it when
\* the other read it.
Raced(r1, r2) ==
    /\ r1 # r2
    /\ req[r1].pc \notin {"read", "rejected"}
    /\ req[r2].pc \notin {"read", "rejected"}
    /\ req[r1].written = req[r2].written

\* C5: two requests that both read the snapshot before either writes it
\* start from the same prior migration list and give their migrations the
\* same version, and the stored history keeps at most one migration of
\* that version.
C5_RacingRequestsShareVersion ==
    \A r1, r2 \in 1..Len(req) :
        Raced(r1, r2) =>
            /\ req[r1].existingMigrationFiles =
                  req[r2].existingMigrationFiles
            /\ \A a \in Range(req[r1].generated),
                  b \in Range(req[r2].generated) :
                  /\ a.version = b.version
                  /\ Cardinality({i \in 1..Len(StoredFiles) :
                        StoredFiles[i].version = a.version}) <= 1

\* Two racing requests have emitted different migrations of one version,
\* both have been answered and the stored history holds one of the two.
C5_Witness ==
    \E r1, r2 \in 1..Len(req) :
        /\ Raced(r1, r2) /\ Finished(r1) /\ Finished(r2)
        /\ \E a \in Range(req[r1].generated),
              b \in Range(req[r2].generated) :
              /\ a # b /\ a.version = b.version
              /\ Contains(emitted, a) /\ Contains(emitted, b)
              /\ Contains(StoredFiles, b) /\ ~Contains(StoredFiles, a)

(***************************************************************************)
(* SpecVersion: getNextVersion applied to a list of stored file names.     *)
(***************************************************************************)
\* Names the regular expression /^V(\d+)__/ does not match: one underscore,
\* a repeatable migration, a lower-case prefix, no digits, digits not at
\* the start.
UnversionedNames ==
    { <<"V", "2", "_", "x", ".sql">>,
      <<"R", "_", "_", "x", ".sql">>,
      <<"v", "5", "_", "_", "x", ".sql">>,
      <<"V", "_", "_", "x", ".sql">>,
      <<"x", "V", "9", "_", "_", "x", ".sql">> }

VersionedNames == {FileName(1, "x"), FileName(3, "y"), FileName(10, "z")}

RECURSIVE NameSeqs(_)
NameSeqs(n) ==
    IF n = 0 THEN {<<>>}
    ELSE LET shorter == NameSeqs(n - 1)
         IN  shorter \cup
             {Append(ns, name) : ns \in {q \in shorter : Len(q) = n - 1},
                                 name \in UnversionedNames \cup VersionedNames}

InitVersion ==
    /\ IdleInvitations
    /\ existingNames \in NameSeqs(MaxNames)
    /\ result = <<>>
    /\ logicalModel = <<>> /\ prevModel = <<>> /\ curModel = EmptyModel
    /\ out1 = <<>> /\ out2 = <<>> /\ now = 0
    /\ IdleServer

ComputeNextVersion ==
    /\ result = <<>>
    /\ result' = <<getNextVersion(existingNames)>>
    /\ UNCHANGED <<logicalModel, prevModel, curModel, existingNames,
                   out1, out2, now, store, req, emitted,
                   invitation, calls>>

SpecVersion == InitVersion /\ [][ComputeNextVersion]_vars

\* The version a name of the pool carries: the number after V in the three
\* names of the form V<digits>__..., 0 for every other name.
VersionOfName(name) ==
    CASE name = FileName(1, "x")  -> 1
      [] name = FileName(3, "y")  -> 3
      [] name = FileName(10, "z") -> 10
      [] OTHER                    -> 0

\* C11: getNextVersion returns 1 plus the maximum version carried by the
\* names that match V<digits>__..., a name that does not match counting as
\* 0 and the empty list giving 1; so the result is above the version of
\* every existing name, and for V1__x.sql, V3__y.sql it is 4, not 3.
C11_NextVersionIsMaxPlusOne ==
    result # <<>> =>
        /\ \A i \in 1..Len(existingNames) :
              result[1] > VersionOfName(existingNames[i])
        /\ \/ result[1] = 1 /\ \A i \in 1..Len(existingNames) :
                                  VersionOfName(existingNames[i]) = 0
           \/ \E i \in 1..Len(existingNames) :
                 result[1] = VersionOfName(existingNames[i]) + 1
        /\ existingNames = <<>> => result[1] = 1
        /\ existingNames = <<FileName(1, "x"), FileName(3, "y")>> =>
              result[1] = 4

\* A list of three names, one of them unmatched and one carrying version
\* 10, has been given 11.
C11_Witness ==
    /\ result = <<11>>
    /\ Len(existingNames) = 3
    /\ \E i \in 1..Len(existingNames) :
          existingNames[i] \in UnversionedNames

(***************************************************************************)
(* SpecMapping: transformLogicalToPhysical applied to diagrams whose last  *)
(* relationship ranges over every kind, pair of ends and pair of           *)
(* multiplicities, after up to MaxContext earlier relationships.           *)
(***************************************************************************)
ZeroOne == <<"0", ".", ".", "1">>

OneStar == <<"1", ".", ".", "*">>

Multiplicities == {One, Star, ZeroStar, ZeroOne, OneStar}

\* A class whose table name is the name of the junction table of Customer
\* and Order; its primary key is a String.
PairElement ==
    Element("e6", "class", "CustomerOrder", <<Attr("id", "String", <<"id">>)>>)

\* Tag has no primary key; in the first diagram the ids e3 and e6 dangle.
MappingElements ==
    { <<CustomerElement, OrderElement>>,
      <<CustomerElement, OrderElement, PairElement>>,
      <<CustomerElement, TagElement>> }

MappingEnds ==
    { <<"e1", "e2">>, <<"e2", "e1">>, <<"e1", "e1">>, <<"e1", "e3">>,
      <<"e3", "e1">>, <<"e1", "e6">> }

MappingRels ==
    {Rel("r", k, ends[1], ends[2], sm, tm) :
        k \in {"association", "aggregation", "composition",
               "generalization"},
        ends \in MappingEnds, sm \in Multiplicities, tm \in Multiplicities}

\* The relationships that come earlier in the diagram.
ContextRelsAt(id) ==
    { Rel(id, "association", "e1", "e6", One, One),
      Rel(id, "association", "e1", "e2", One, Star),
      Rel(id, "composition", "e1", "e2", Star, Star),
      Rel(id, "generalization", "e2", "e1", One, One),
      Rel(id, "generalization", "e6", "e1", One, One) }

RECURSIVE ContextSeqs(_)
ContextSeqs(n) ==
    IF n = 0 THEN {<<>>}
    ELSE LET shorter == ContextSeqs(n - 1)
         IN  shorter \cup
             {Append(rs, r) : rs \in {q \in shorter : Len(q) = n - 1},
                              r \in ContextRelsAt("c" \o ToString(n))}

MappingModels ==
    {[elements |-> es, relationships |-> Append(cs, r)] :
        es \in MappingElements, cs \in ContextSeqs(MaxContext),
        r \in MappingRels}

InitMapping ==
    /\ IdleInvitations
    /\ logicalModel \in {<<lm>> : lm \in MappingModels}
    /\ result = <<>>
    /\ IdleGenerator /\ IdleServer /\ now = 0

SpecMapping == InitMapping /\ [][Transform]_vars

(***************************************************************************)
(* Properties of the relationship mapping (SpecMapping).  Step 2 maps the  *)
(* relationships one after the other; the manager before and after the     *)
(* k-th relationship is the state the claims about one relationship speak  *)
(* of.                                                                     *)
(***************************************************************************)
Transformed == logicalModel # <<>> /\ result # <<>>

RelCount == Len(logicalModel[1].relationships)

RelAt(k) == logicalModel[1].relationships[k]

BeforeRel(k) ==
    mapAssociationsToRelationships(
        mapClassesToTables(NewManager, logicalModel[1].elements),
        logicalModel[1], SubSeq(logicalModel[1].relationships, 1, k - 1))

AfterRel(k) ==
    mapAssociationsToRelationships(BeforeRel(k), logicalModel[1],
                                   <<RelAt(k)>>)

IsBinaryKind(rel) ==
    rel.relationship \in {"association", "aggregation", "composition"}

\* Both ends of the relationship are elements of the diagram.
EndsExist(rel) ==
    /\ ElementById(logicalModel[1], SourceIdOf(rel)) # <<>>
    /\ ElementById(logicalModel[1], TargetIdOf(rel)) # <<>>

SourceTableOf(rel) ==
    TMtoSnakeCase(ElementById(logicalModel[1], SourceIdOf(rel))[1].className)

TargetTableOf(rel) ==
    TMtoSnakeCase(ElementById(logicalModel[1], TargetIdOf(rel))[1].className)

TableNamed(m, name) == m.tables[TableAt(m.tables, name)]

\* The table exists in m and its first primary-key column is a column.
HasKey(m, name) ==
    /\ HasTable(m.tables, name)
    /\ TableNamed(m, name).primaryKey # <<>>
    /\ FindColumn(TableNamed(m, name).columns,
                  TableNamed(m, name).primaryKey[1]) # <<>>

KeyColumn(m, name) ==
    FindColumn(TableNamed(m, name).columns,
               TableNamed(m, name).primaryKey[1])[1]

BothMany(rel) ==
    /\ parseMultiplicity(SourceCardOf(rel)) = "many"
    /\ parseMultiplicity(TargetCardOf(rel)) = "many"

\* column is a foreign-key column to the primary key pk of table refTable.
RefersTo(column, refTable, pk) ==
    /\ column.name = refTable \o pk.name
    /\ column.dataType = pk.dataType
    /\ column.fk = <<[referencesTable |-> refTable,
                      referencesColumn |-> pk.name]>>

\* fkey is the foreign key of column to the primary key pk of refTable.
KeyRefersTo(fkey, column, refTable, pk) ==
    /\ fkey.columns = <<column.name>>
    /\ fkey.referencesTable = refTable
    /\ fkey.referencesColumns = <<pk.name>>

\* junction is a junction table of s and t as they are in before.
IsJunctionOf(junction, before, s, t) ==
    /\ Len(junction.columns) = 2 /\ Len(junction.foreignKeys) = 2
    /\ RefersTo(junction.columns[1], s, KeyColumn(before, s))
    /\ RefersTo(junction.columns[2], t, KeyColumn(before, t))
    /\ KeyRefersTo(junction.foreignKeys[1], junction.columns[1], s,
                   KeyColumn(before, s))
    /\ KeyRefersTo(junction.foreignKeys[2], junction.columns[2], t,
                   KeyColumn(before, t))
    /\ junction.primaryKey = <<junction.columns[1].name,
                               junction.columns[2].name>>

\* Every table of before other than the one called name is in after, at
\* its place, as it was.
OthersUntouched(before, after, name) ==
    /\ Len(after.tables) >= Len(before.tables)
    /\ \A i \in 1..Len(before.tables) :
          before.tables[i].name # name =>
              after.tables[i] = before.tables[i]

JunctionCreated(before, after, s, t) ==
    /\ Cardinality({i \in 1..Len(after.tables) :
                        after.tables[i].name = s \o t}) = 1
    /\ Len(after.tables) <= Len(before.tables) + 1
    /\ IsJunctionOf(TableNamed(after, s \o t), before, s, t)
    /\ OthersUntouched(before, after, s \o t)

\* The k-th relationship is a many-to-many association, aggregation or
\* composition between two tables that have a primary key.
ManyToManyAt(k) ==
    /\ IsBinaryKind(RelAt(k)) /\ EndsExist(RelAt(k)) /\ BothMany(RelAt(k))
    /\ HasKey(BeforeRel(k), SourceTableOf(RelAt(k)))
    /\ HasKey(BeforeRel(k), TargetTableOf(RelAt(k)))

\* C12: an association, aggregation or composition whose two multiplicities
\* parse to "many" creates exactly one junction table, named after the two
\* tables; the primary key of the junction table is exactly its two
\* foreign-key columns, the first referring to the primary key of the
\* source table and the second to that of the target table; no column is
\* added to the source table or to the target table.
C12_ManyToManyJunction ==
    Transformed =>
        \A k \in 1..RelCount :
            ManyToManyAt(k) =>
                JunctionCreated(BeforeRel(k), AfterRel(k),
                                SourceTableOf(RelAt(k)),
                                TargetTableOf(RelAt(k)))

\* The transformation has mapped a diagram whose last relationship is a
\* many-to-many aggregation of Customer and Order, and the model returned
\* has the junction table.
C12_Witness ==
    /\ Transformed
    /\ ManyToManyAt(RelCount)
    /\ RelAt(RelCount).relationship = "aggregation"
    /\ SourceTableOf(RelAt(RelCount)) = <<"customer">>
    /\ TargetTableOf(RelAt(RelCount)) = <<"order">>
    /\ HasTable(result[1].physicalModel.tables, <<"customer", "order">>)

\* The manager after one more relationship.
StepWith(m, rel) ==
    mapAssociationsToRelationships(m, logicalModel[1], <<rel>>)

AsAggregation(rel) == [rel EXCEPT !.relationship = "aggregation"]

\* Foreign key j of table i of after is not foreign key j of table i of
\* before.
NewKey(before, after, i, j) ==
    \/ i > Len(before.tables)
    \/ j > Len(before.tables[i].foreignKeys)
    \/ before.tables[i].foreignKeys[j] # after.tables[i].foreignKeys[j]

WithoutKeys(table) == [table EXCEPT !.foreignKeys = <<>>]

\* comp and aggr are the managers a composition and the aggregation with the
\* same ends and multiplicities lead to from before: the same tables,
\* columns and foreign keys, where each foreign key the relationship
\* generated cascades in comp and has no policy in aggr.
CascadeIsTheDifference(before, comp, aggr) ==
    /\ Len(comp.tables) = Len(aggr.tables)
    /\ \A i \in 1..Len(comp.tables) :
          /\ WithoutKeys(comp.tables[i]) = WithoutKeys(aggr.tables[i])
          /\ Len(comp.tables[i].foreignKeys) =
                 Len(aggr.tables[i].foreignKeys)
          /\ \A j \in 1..Len(comp.tables[i].foreignKeys) :
                IF NewKey(before, comp, i, j) \/ NewKey(before, aggr, i, j)
                THEN /\ comp.tables[i].foreignKeys[j].onDelete = "CASCADE"
                     /\ aggr.tables[i].foreignKeys[j] =
                            [comp.tables[i].foreignKeys[j]
                                EXCEPT !.onDelete = Undefined]
                ELSE aggr.tables[i].foreignKeys[j] =
                         comp.tables[i].foreignKeys[j]

\* C13: every foreign key generated from a composition, on a class table or
\* on a junction table, has onDelete = CASCADE, and the aggregation between
\* the same elements with the same multiplicities generates the same
\* foreign key (table, column, referenced table and column) with no
\* cascade policy.
C13_CompositionCascades ==
    Transformed =>
        \A k \in 1..RelCount :
            RelAt(k).relationship = "composition" =>
                CascadeIsTheDifference(
                    BeforeRel(k), AfterRel(k),
                    StepWith(BeforeRel(k), AsAggregation(RelAt(k))))

\* The transformation has mapped a diagram whose only relationship is a
\* composition of Customer (1) and Order (1..*), and the foreign key of
\* order in the model returned cascades.
C13_Witness ==
    /\ Transformed
    /\ RelCount = 1
    /\ RelAt(1).relationship = "composition"
    /\ RelAt(1).sourceId = "e1" /\ RelAt(1).targetId = "e2"
    /\ RelAt(1).sourceMultiplicity = One
    /\ RelAt(1).targetMultiplicity = OneStar
    /\ \E i \in 1..Len(result[1].physicalModel.tables) :
          /\ result[1].physicalModel.tables[i].name = <<"order">>
          /\ Len(result[1].physicalModel.tables[i].foreignKeys) = 1
          /\ result[1].physicalModel.tables[i].foreignKeys[1].onDelete =
                 "CASCADE"

\* The columns of the table that carry a foreign-key descriptor.
ForeignKeyColumns(table) == SelectSeq(table.columns, LAMBDA c : c.fk # <<>>)

\* The diagram has the classes Customer and Order, and its only
\* relationship is the association of Customer ("1") and Order ("0..*").
CustomerHasOrders ==
    /\ Transformed
    /\ RelCount = 1
    /\ RelAt(1).relationship = "association"
    /\ RelAt(1).sourceId = "e1" /\ RelAt(1).targetId = "e2"
    /\ RelAt(1).sourceMultiplicity = One
    /\ RelAt(1).targetMultiplicity = ZeroStar
    /\ EndsExist(RelAt(1))

\* The foreign key is on order, refers to customer and is indexed, and
\* customer has no foreign-key column.
PlacedOnOrder(model) ==
    /\ Len(ForeignKeyColumns(TableNamed(model, <<"order">>))) = 1
    /\ RefersTo(ForeignKeyColumns(TableNamed(model, <<"order">>))[1],
                <<"customer">>, KeyColumn(model, <<"customer">>))
    /\ \E i \in 1..Len(TableNamed(model, <<"order">>).indexes) :
          TableNamed(model, <<"order">>).indexes[i].columns =
              <<<<"customer", "id">>>>
    /\ ForeignKeyColumns(TableNamed(model, <<"customer">>)) = <<>>

\* C14: for the association of Customer ("1") and Order ("0..*") the
\* foreign-key column added to order is not nullable, there is an index on
\* it, and customer gets no foreign-key column.
C14_OrderKeyNotNullable ==
    CustomerHasOrders =>
        /\ PlacedOnOrder(result[1].physicalModel)
        /\ ~ForeignKeyColumns(
                TableNamed(result[1].physicalModel, <<"order">>))[1].nullable

\* What the code does in the case of C14: placement and index as claimed,
\* the column nullable.
C14_PlacementHolds ==
    CustomerHasOrders =>
        /\ PlacedOnOrder(result[1].physicalModel)
        /\ ForeignKeyColumns(
               TableNamed(result[1].physicalModel, <<"order">>))[1].nullable

\* bearer got exactly one more column, the foreign-key column to the
\* primary key of referenced, as its last column, and no other table of
\* before changed.
ForeignKeyAdded(before, after, bearer, referenced) ==
    /\ Len(after.tables) = Len(before.tables)
    /\ OthersUntouched(before, after, bearer)
    /\ Len(TableNamed(after, bearer).columns) =
           Len(TableNamed(before, bearer).columns) + 1
    /\ SubSeq(TableNamed(after, bearer).columns, 1,
              Len(TableNamed(before, bearer).columns)) =
           TableNamed(before, bearer).columns
    /\ RefersTo(TableNamed(after, bearer).columns[
                    Len(TableNamed(after, bearer).columns)],
                referenced, KeyColumn(before, referenced))

\* The k-th relationship is an association, aggregation or composition
\* between two distinct tables that have a primary key, and not both of its
\* multiplicities parse to "many".
ToOneAt(k) ==
    /\ IsBinaryKind(RelAt(k)) /\ EndsExist(RelAt(k)) /\ ~BothMany(RelAt(k))
    /\ SourceTableOf(RelAt(k)) # TargetTableOf(RelAt(k))
    /\ HasKey(BeforeRel(k), SourceTableOf(RelAt(k)))
    /\ HasKey(BeforeRel(k), TargetTableOf(RelAt(k)))

\* The table of the many side when exactly one side is "many", the source
\* table when both sides are "one".
ExpectedBearer(rel) ==
    IF parseMultiplicity(TargetCardOf(rel)) = "many"
    THEN TargetTableOf(rel) ELSE SourceTableOf(rel)

ExpectedReferenced(rel) ==
    IF parseMultiplicity(TargetCardOf(rel)) = "many"
    THEN SourceTableOf(rel) ELSE TargetTableOf(rel)

OptionalMultiplicities == {Star, ZeroStar, ZeroOne}

\* The k-th relationship is an association, aggregation or composition that
\* adds a foreign-key column: not both multiplicities parse to "many" and
\* both tables have a primary key.
AddsKeyAt(k) ==
    /\ IsBinaryKind(RelAt(k)) /\ EndsExist(RelAt(k)) /\ ~BothMany(RelAt(k))
    /\ HasKey(BeforeRel(k), SourceTableOf(RelAt(k)))
    /\ HasKey(BeforeRel(k), TargetTableOf(RelAt(k)))

\* The multiplicity written on the side that bears the foreign key: the
\* target side when the target is the many side, the source side otherwise.
BearerCardOf(rel) ==
    IF parseMultiplicity(TargetCardOf(rel)) = "many"
    THEN TargetCardOf(rel) ELSE SourceCardOf(rel)

\* The column the k-th relationship added: the last one of the bearer.
AddedColumn(k) ==
    TableNamed(AfterRel(k), ExpectedBearer(RelAt(k))).columns[
        Len(TableNamed(AfterRel(k), ExpectedBearer(RelAt(k))).columns)]

\* C16: the foreign-key column of a one-to-many or one-to-one relationship
\* is nullable exactly when the multiplicity written on the side of the
\* table that bears the foreign key is optional (minimum 0, or the bare
\* token *), whatever the multiplicity of the referenced side is.
C16_NullableBySideBearingKey ==
    Transformed =>
        \A k \in 1..RelCount :
            AddsKeyAt(k) =>
                (AddedColumn(k).nullable <=>
                    BearerCardOf(RelAt(k)) \in OptionalMultiplicities)

\* What the code does: the statement of C16 for relationships between two
\* distinct tables.
C16_HoldsBetweenDistinctTables ==
    Transformed =>
        \A k \in 1..RelCount :
            (AddsKeyAt(k) /\
             SourceTableOf(RelAt(k)) # TargetTableOf(RelAt(k))) =>
                (AddedColumn(k).nullable <=>
                    BearerCardOf(RelAt(k)) \in OptionalMultiplicities)

\* For an association of a class with itself the multiplicity read is the
\* source one, also when the key is placed for the target side.
C16_SelfAssociationReadsSource ==
    Transformed =>
        \A k \in 1..RelCount :
            (AddsKeyAt(k) /\
             SourceTableOf(RelAt(k)) = TargetTableOf(RelAt(k))) =>
                (AddedColumn(k).nullable <=>
                    SourceCardOf(RelAt(k)) \in OptionalMultiplicities)

\* The foreign-key column refers to a table of the model and to one of its
\* primary-key columns, and has the data type of that column.
RefersToPrimaryKey(model, column) ==
    /\ HasTable(model.tables, column.fk[1].referencesTable)
    /\ Contains(TableNamed(model, column.fk[1].referencesTable).primaryKey,
                column.fk[1].referencesColumn)
    /\ \E i \in 1..Len(TableNamed(model,
                           column.fk[1].referencesTable).columns) :
          /\ TableNamed(model, column.fk[1].referencesTable).columns[i].name
                 = column.fk[1].referencesColumn
          /\ TableNamed(model,
                 column.fk[1].referencesTable).columns[i].dataType
                 = column.dataType

ForeignKeysSound(model) ==
    \A i \in 1..Len(model.tables) :
        \A j \in 1..Len(model.tables[i].columns) :
            model.tables[i].columns[j].fk # <<>> =>
                RefersToPrimaryKey(model, model.tables[i].columns[j])

\* C17: in every physical model the transformation returns, whatever the
\* logical model and the order of its relationships, each foreign key
\* refers to a table of the model, the referenced column is a primary-key
\* column of that table, and the foreign-key column has the data type of
\* the referenced column.
C17_ForeignKeysReferToPrimaryKeys ==
    Transformed => ForeignKeysSound(result[1].physicalModel)

\* What the code does: the statement of C17 for the diagrams in which no
\* class has the table name of a junction table.
C17_HoldsWithoutNameClash ==
    (Transformed /\ ~Contains(logicalModel[1].elements, PairElement)) =>
        ForeignKeysSound(result[1].physicalModel)

(***************************************************************************)
(* SpecDiffer: detectSchemaChanges applied to two physical models the      *)
(* transformation returns.                                                 *)
(***************************************************************************)
\* Versions of the class Customer: as in the pool; name optional; name part
\* of the key; name renamed to label; and the earlier version (name an
\* optional Integer, and a label).
CustomerVersions ==
    { CustomerElement,
      Element("e1", "class", "Customer",
              <<Attr("id", "Long", <<"id">>), Attr("name", "String", <<>>)>>),
      Element("e1", "class", "Customer",
              <<Attr("id", "Long", <<"id">>),
                Attr("name", "String", <<"required", "id">>)>>),
      Element("e1", "class", "Customer",
              <<Attr("id", "Long", <<"id">>),
                Attr("label", "String", <<"required">>)>>),
      EarlierCustomer }

\* Customer and Order with two associations between them: both put a column
\* customer_id on order, the first one nullable ("*"), the second one not
\* ("1..*").
TwoAssociations ==
    [elements |-> <<CustomerElement, OrderElement>>,
     relationships |->
         <<Rel("r1", "association", "e1", "e2", One, Star),
           Rel("r2", "association", "e1", "e2", One, OneStar)>>]

DifferDiagrams ==
    {[elements |-> first \o rest, relationships |-> <<>>] :
        first \in {<<>>} \cup {<<c>> : c \in CustomerVersions},
        rest \in DistinctSeqs({OrderElement, TagElement}, MaxElements - 1)}
    \cup {TwoAssociations}

InitDiffer ==
    /\ IdleInvitations
    /\ prevModel \in {<<transformLogicalToPhysical(d).physicalModel>> :
                         d \in DifferDiagrams}
    /\ curModel \in {transformLogicalToPhysical(d).physicalModel :
                        d \in DifferDiagrams}
    /\ result = <<>>
    /\ logicalModel = <<>> /\ existingNames = <<>>
    /\ out1 = <<>> /\ out2 = <<>> /\ now = 0
    /\ IdleServer

Detect ==
    /\ result = <<>>
    /\ result' = <<detectSchemaChanges(prevModel[1], curModel)>>
    /\ UNCHANGED <<logicalModel, prevModel, curModel, existingNames,
                   out1, out2, now, store, req, emitted,
                   invitation, calls>>

SpecDiffer == InitDiffer /\ [][Detect]_vars

(***************************************************************************)
(* Properties of the differ (SpecDiffer)                                   *)
(***************************************************************************)
Detected == prevModel # <<>> /\ result # <<>>

NoChanges ==
    [newTables |-> <<>>, deletedTables |-> <<>>, modifiedTables |-> <<>>,
     hasChanges |-> FALSE]

\* No two columns of a table of the model have the same name.
DistinctColumnNames(model) ==
    \A i \in 1..Len(model.tables) :
        \A j, k \in 1..Len(model.tables[i].columns) :
            model.tables[i].columns[j].name =
                model.tables[i].columns[k].name => j = k

\* C18: detecting the changes between a physical model and itself yields
\* hasChanges = false and empty newTables, deletedTables and modifiedTables.
C18_DiffOfModelWithItself ==
    (Detected /\ prevModel[1] = curModel) => result[1] = NoChanges

\* What the code does: the statement of C18 for the models in which no
\* table has two columns of the same name.
C18_HoldsWithDistinctColumnNames ==
    (Detected /\ prevModel[1] = curModel /\ DistinctColumnNames(curModel))
        => result[1] = NoChanges

NamesOf(model) == {model.tables[i].name : i \in 1..Len(model.tables)}

NoRepeats(s) == \A i, j \in 1..Len(s) : s[i] = s[j] => i = j

\* The lists detectTableChanges returns for the table called name.
TableDiff(name) ==
    detectTableChanges(TableNamed(prevModel[1], name),
                       TableNamed(curModel, name))

ColumnNameSet(table) == {table.columns[i].name : i \in 1..Len(table.columns)}

ColumnNamed(table, name) == FindColumn(table.columns, name)[1]

\* The column names of both versions whose data type, nullability or
\* primary-key flag is not the same in the two versions.
DifferingColumns(previous, current) ==
    {x \in ColumnNameSet(previous) \cap ColumnNameSet(current) :
        \/ ColumnNamed(previous, x).dataType # ColumnNamed(current, x).dataType
        \/ ColumnNamed(previous, x).nullable # ColumnNamed(current, x).nullable
        \/ ColumnNamed(previous, x).primaryKey #
               ColumnNamed(current, x).primaryKey}

\* The two versions differ in a column: one has a column name the other
\* lacks, or a column of both differs.
ColumnsDiffer(previous, current) ==
    \/ ColumnNameSet(previous) # ColumnNameSet(current)
    \/ DifferingColumns(previous, current) # {}

\* The tables of both models with a new, deleted or modified column.
ChangedTables ==
    {n \in NamesOf(prevModel[1]) \cap NamesOf(curModel) :
        ColumnsDiffer(TableNamed(prevModel[1], n), TableNamed(curModel, n))}

ModifiedNames ==
    [i \in 1..Len(result[1].modifiedTables) |->
        result[1].modifiedTables[i].tableName]

\* C19: newTables is exactly the set of table names of the current model
\* that are not in the previous one, deletedTables exactly the set of those
\* of the previous model that are not in the current one, modifiedTables
\* lists exactly the tables of both that have a new, deleted or modified
\* column, and hasChanges is true if and only if one of the three lists is
\* not empty.
ChangeSetExact ==
        /\ Range(result[1].newTables) =
               NamesOf(curModel) \ NamesOf(prevModel[1])
        /\ NoRepeats(result[1].newTables)
        /\ Range(result[1].deletedTables) =
               NamesOf(prevModel[1]) \ NamesOf(curModel)
        /\ NoRepeats(result[1].deletedTables)
        /\ Range(ModifiedNames) = ChangedTables
        /\ NoRepeats(ModifiedNames)
        /\ \A i \in 1..Len(result[1].modifiedTables) :
              result[1].modifiedTables[i] =
                  [tableName |-> ModifiedNames[i]] @@
                  TableDiff(ModifiedNames[i])
        /\ result[1].hasChanges <=>
               (result[1].newTables # <<>> \/
                result[1].deletedTables # <<>> \/
                result[1].modifiedTables # <<>>)

C19_ChangeSetExact == Detected => ChangeSetExact

\* The statement of C19 for models in which every table has one column
\* per name.
C19_HoldsWithDistinctColumnNames ==
    (Detected /\ DistinctColumnNames(prevModel[1]) /\
     DistinctColumnNames(curModel)) => ChangeSetExact

\* The differ has compared two models and found a new table, a deleted
\* table and a modified table.
C19_Witness ==
    /\ Detected
    /\ result[1].newTables = <<<<"tag">>>>
    /\ result[1].deletedTables = <<<<"order">>>>
    /\ Len(result[1].modifiedTables) = 1
    /\ result[1].modifiedTables[1].tableName = <<"customer">>
    /\ result[1].modifiedTables[1].newColumns = <<>>
    /\ result[1].hasChanges

\* The lists of the change set for the table called name: its entry in
\* modifiedTables, empty lists when it has none.
ListedChanges(name) ==
    IF \E i \in 1..Len(result[1].modifiedTables) :
           result[1].modifiedTables[i].tableName = name
    THEN result[1].modifiedTables[
             CHOOSE i \in 1..Len(result[1].modifiedTables) :
                 result[1].modifiedTables[i].tableName = name]
    ELSE [tableName |-> name, newColumns |-> <<>>, deletedColumns |-> <<>>,
          modifiedColumns |-> <<>>]

\* The lists of every table of both models classify its column names.
ColumnChangesByName ==
        \A n \in NamesOf(prevModel[1]) \cap NamesOf(curModel) :
            /\ Range(ListedChanges(n).modifiedColumns) =
                   DifferingColumns(TableNamed(prevModel[1], n),
                                    TableNamed(curModel, n))
            /\ Range(ListedChanges(n).newColumns) =
                   ColumnNameSet(TableNamed(curModel, n)) \
                   ColumnNameSet(TableNamed(prevModel[1], n))
            /\ Range(ListedChanges(n).deletedColumns) =
                   ColumnNameSet(TableNamed(prevModel[1], n)) \
                   ColumnNameSet(TableNamed(curModel, n))
            /\ NoRepeats(ListedChanges(n).modifiedColumns)
            /\ NoRepeats(ListedChanges(n).newColumns)
            /\ NoRepeats(ListedChanges(n).deletedColumns)

\* C20: for a table of both models, a column name of both versions is
\* listed as modified if and only if its data type, nullability or
\* primary-key flag differs; a name of the current version only is listed
\* as new and a name of the previous version only as deleted, so that a
\* renamed column is one deleted and one new column and never a modified
\* one.
C20_ColumnChangesByName == Detected => ColumnChangesByName

\* The statement of C20 for models in which every table has one column
\* per name.
C20_HoldsWithDistinctColumnNames ==
    (Detected /\ DistinctColumnNames(prevModel[1]) /\
     DistinctColumnNames(curModel)) => ColumnChangesByName

\* The differ has compared Customer with the version in which name is
\* renamed to label: name is deleted, label is new, nothing is modified.
C20_Witness ==
    /\ Detected
    /\ Len(result[1].modifiedTables) = 1
    /\ result[1].modifiedTables[1] =
           [tableName |-> <<"customer">>, newColumns |-> <<<<"label">>>>,
            deletedColumns |-> <<<<"name">>>>, modifiedColumns |-> <<>>]

\* The differ has compared Customer with the version in which name is part
\* of the primary key: the flag alone makes name a modified column.
C20_WitnessKeyFlag ==
    /\ Detected
    /\ Len(result[1].modifiedTables) = 1
    /\ result[1].modifiedTables[1].modifiedColumns = <<<<"name">>>>
    /\ ColumnNamed(TableNamed(prevModel[1], <<"customer">>),
                   <<"name">>).primaryKey = "false"
    /\ ColumnNamed(TableNamed(curModel, <<"customer">>),
                   <<"name">>).primaryKey = "true"
    /\ ColumnNamed(TableNamed(prevModel[1], <<"customer">>),
                   <<"name">>).nullable =
           ColumnNamed(TableNamed(curModel, <<"customer">>),
                       <<"name">>).nullable

(***************************************************************************)
(* Properties of a request that changes nothing (SpecSeq)                  *)
(***************************************************************************)
\* The snapshot holds a physical model and the change set from it to the
\* model of request r has no changes.
NoChangesFor(r) ==
    /\ store # <<>> /\ store[1].physicalModel # <<>>
    /\ ~detectSchemaChanges(store[1].physicalModel[1],
                            req[r].physicalModel).hasChanges

\* generateIncrementalMigration from the stored model to the model of
\* request r returns null whatever the next version is.
NullForAnyVersion(r) ==
    \A nextVersion \in 1..(MaxRequests + 1) :
        generateIncrementalMigration(store[1].physicalModel[1],
            req[r].physicalModel, generateEntities(req[r].physicalModel),
            nextVersion, now) = <<>>

\* C21: when the change set between the stored and the current physical
\* model has no changes, generateIncrementalMigration returns null for any
\* next version number, the request emits no migration, and no step of the
\* request changes the stored migration history.
C21_NoChangesNoMigration ==
    [][\A r \in 1..Len(req) :
          (req[r].pc \in {"read", "check", "update", "create"} /\
           NoChangesFor(r)) =>
              /\ req[r].pc = "read" => NullForAnyVersion(r)
              /\ (req[r].pc = "read" /\ req'[r].pc = "check") =>
                     req'[r].generated = <<>> /\ emitted' = emitted
              /\ StoredFiles' = StoredFiles]_vars

\* A request whose model is the stored one has been answered: it generated
\* nothing and the stored history is the one it read.
C21_Witness ==
    \E r \in 1..Len(req) :
        /\ req[r].pc = "written"
        /\ req[r].generated = <<>>
        /\ req[r].existingMigrationFiles # <<>>
        /\ StoredFiles = req[r].existingMigrationFiles
        /\ store[1].physicalModel = <<req[r].physicalModel>>

(***************************************************************************)
(* Properties of relationships with a missing end (SpecMapping)            *)
(***************************************************************************)
\* The diagram without its k-th relationship.
WithoutRel(k) ==
    [logicalModel[1] EXCEPT !.relationships =
        SubSeq(@, 1, k - 1) \o SubSeq(@, k + 1, Len(@))]

\* full is other with the one error about the relationship added.
OnlyAddsError(full, other, error) ==
    /\ full.physicalModel = other.physicalModel
    /\ full.warnings = other.warnings
    /\ SelectSeq(full.errors, LAMBDA e : e # error) = other.errors
    /\ Len(full.errors) = Len(other.errors) + 1

\* C22: a relationship whose source or target id names no element of the
\* logical model appends an error and changes no table, and every other
\* relationship is mapped exactly as it is in the model without the
\* dangling relationship: the two results have the same physical model and
\* the same warnings, and their errors differ by the one about the
\* dangling relationship.
C22_DanglingRelationshipIsSkipped ==
    Transformed =>
        \A k \in 1..RelCount :
            ~EndsExist(RelAt(k)) =>
                OnlyAddsError(result[1],
                              transformLogicalToPhysical(WithoutRel(k)),
                              Err("elementsNotFound", RelAt(k).id))

\* A diagram of Customer and Order whose first relationship ends at the
\* missing e6 and whose second one is a one-to-many association: the
\* result has the error about the first and the foreign key of the second.
C22_Witness ==
    /\ Transformed
    /\ RelCount = 2
    /\ ~EndsExist(RelAt(1)) /\ EndsExist(RelAt(2))
    /\ RelAt(2).relationship = "association"
    /\ result[1].errors = <<Err("elementsNotFound", RelAt(1).id)>>
    /\ \E t \in Range(result[1].physicalModel.tables) :
          t.name = <<"order">> /\ Len(t.foreignKeys) = 1

(***************************************************************************)
(* Properties of generalizations (SpecMapping)                             *)
(***************************************************************************)
ResultModel == result[1].physicalModel

\* The k-th relationship is a generalization between two elements whose
\* tables exist, the table of the superclass with a primary key.
GeneralizationAt(k) ==
    /\ RelAt(k).relationship = "generalization"
    /\ EndsExist(RelAt(k))
    /\ HasTable(ResultModel.tables, SourceTableOf(RelAt(k)))
    /\ HasTable(ResultModel.tables, TargetTableOf(RelAt(k)))
    /\ TableNamed(ResultModel, TargetTableOf(RelAt(k))).primaryKey # <<>>

\* The table has a foreign key to the first primary-key column of the
\* referenced table, on a column of the table.
HasKeyTo(table, referenced) ==
    \E i \in 1..Len(table.foreignKeys) :
        /\ table.foreignKeys[i].referencesTable = referenced.name
        /\ table.foreignKeys[i].referencesColumns =
               <<referenced.primaryKey[1]>>
        /\ \E j \in 1..Len(table.columns) :
              table.foreignKeys[i].columns = <<table.columns[j].name>>

DiscriminatorCount(table) ==
    Cardinality({j \in 1..Len(table.columns) :
                    table.columns[j].name = <<"discriminator">>})

\* C23: for every generalization, the table of the subclass has a foreign
\* key to the table of the superclass, and the table of the superclass has
\* exactly one discriminator column, however many generalizations end at
\* it.
C23_OneDiscriminatorPerSuperclass ==
    Transformed =>
        \A k \in 1..RelCount :
            GeneralizationAt(k) =>
                /\ HasKeyTo(TableNamed(ResultModel, SourceTableOf(RelAt(k))),
                            TableNamed(ResultModel, TargetTableOf(RelAt(k))))
                /\ DiscriminatorCount(
                       TableNamed(ResultModel, TargetTableOf(RelAt(k)))) = 1

\* CustomerOrder and Order both generalize to Customer: both tables have a
\* foreign key to customer, which has one discriminator column.
C23_Witness ==
    /\ Transformed
    /\ RelCount = 2
    /\ GeneralizationAt(1) /\ GeneralizationAt(2)
    /\ SourceTableOf(RelAt(1)) = <<"customer", "order">>
    /\ SourceTableOf(RelAt(2)) = <<"order">>
    /\ TargetTableOf(RelAt(1)) = <<"customer">>
    /\ TargetTableOf(RelAt(2)) = <<"customer">>
    /\ DiscriminatorCount(TableNamed(ResultModel, <<"customer">>)) = 1
    /\ HasKeyTo(TableNamed(ResultModel, <<"order">>),
                TableNamed(ResultModel, <<"customer">>))
    /\ HasKeyTo(TableNamed(ResultModel, <<"customer", "order">>),
                TableNamed(ResultModel, <<"customer">>))

(***************************************************************************)
(* Properties of the tables of the result (SpecMapping)                    *)
(***************************************************************************)
ResultTables == Range(ResultModel.tables)

\* The indexes of the table on the columns of the foreign key.
IndexesOf(table, fkey) ==
    {i \in 1..Len(table.indexes) : table.indexes[i].columns = fkey.columns}

EveryForeignKeyIndexed ==
    \A table \in ResultTables :
        \A f \in 1..Len(table.foreignKeys) :
            IndexesOf(table, table.foreignKeys[f]) # {}

\* C24: after the transformation every foreign key of every table,
\* junction tables included, has an index on its column, and no table has
\* two indexes for the same foreign-key column.
C24_ForeignKeysIndexedOnce ==
    Transformed =>
        /\ EveryForeignKeyIndexed
        /\ \A table \in ResultTables :
              \A f \in 1..Len(table.foreignKeys) :
                  Cardinality(IndexesOf(table, table.foreignKeys[f])) <= 1

\* Every foreign key of the result has an index on its column.
C24_EveryForeignKeyIndexed == Transformed => EveryForeignKeyIndexed

\* No two relationships of the diagram add a foreign key to the same table
\* for the same referenced table.
OneKeyPerPair ==
    \A table \in ResultTables :
        \A f, g \in 1..Len(table.foreignKeys) :
            table.foreignKeys[f].columns = table.foreignKeys[g].columns =>
                f = g

\* The statement of C24 for results in which no table has two foreign keys
\* on one column name.
C24_HoldsWithOneKeyPerColumn ==
    (Transformed /\ OneKeyPerPair) =>
        \A table \in ResultTables :
            \A f \in 1..Len(table.foreignKeys) :
                Cardinality(IndexesOf(table, table.foreignKeys[f])) = 1

\* C28: in the physical model the transformation returns no table has two
\* columns of the same name, also when two relationships link the same
\* pair of classes and when a many-to-many relationship links a class to
\* itself.
C28_NoTwoColumnsOfOneName ==
    Transformed =>
        \A table \in ResultTables :
            \A i, j \in 1..Len(table.columns) :
                table.columns[i].name = table.columns[j].name => i = j

\* The statement of C28 for diagrams with one relationship that is not a
\* many-to-many relationship of a class with itself.
C28_HoldsForOneRelationship ==
    (Transformed /\ RelCount = 1 /\
     ~(BothMany(RelAt(1)) /\ SourceIdOf(RelAt(1)) = TargetIdOf(RelAt(1)))) =>
        DistinctColumnNames(ResultModel)

\* The elements of the diagram that step 1 maps to a table.
TableElements ==
    SelectSeq(logicalModel[1].elements,
              LAMBDA e : e.elementType \in {"class", "interface"})

\* The table of the element is in the result with the columns step 1 gave
\* it, followed by what the relationships added.
KeepsOwnTable(element) ==
    /\ HasTable(ResultModel.tables, TMtoSnakeCase(element.className))
    /\ LET own == createTableFromClass(element).table
           now1 == TableNamed(ResultModel, TMtoSnakeCase(element.className))
       IN  /\ Len(now1.columns) >= Len(own.columns)
           /\ SubSeq(now1.columns, 1, Len(own.columns)) = own.columns
           /\ now1.primaryKey = own.primaryKey

\* The many-to-many relationships for which a junction table was built.
JunctionRecords ==
    SelectSeq(ResultModel.relationships, LAMBDA p : p.type = "many-to-many")

\* C29: creating a junction table never replaces a table of the physical
\* model: after the transformation every class or interface element has
\* its own table with its own columns, and there is one junction table
\* more for every many-to-many relationship mapped.
C29_JunctionReplacesNoTable ==
    Transformed =>
        /\ \A e \in Range(TableElements) : KeepsOwnTable(e)
        /\ Len(ResultModel.tables) =
               Len(TableElements) + Len(JunctionRecords)

\* The junction tables built have names no other table of the diagram has.
FreshJunctionNames ==
    /\ \A i, j \in 1..Len(JunctionRecords) :
          JunctionRecords[i].junctionTable =
              JunctionRecords[j].junctionTable => i = j
    /\ \A i \in 1..Len(JunctionRecords), e \in Range(TableElements) :
          JunctionRecords[i].junctionTable # TMtoSnakeCase(e.className)

\* The statement of C29 for diagrams whose junction tables have names of
\* their own.
C29_HoldsWithFreshJunctionNames ==
    (Transformed /\ FreshJunctionNames) =>
        /\ \A e \in Range(TableElements) : KeepsOwnTable(e)
        /\ Len(ResultModel.tables) =
               Len(TableElements) + Len(JunctionRecords)

(***************************************************************************)
(* SpecParser: parseMultiplicity and isMultiplicityOptional applied to the *)
(* source multiplicity of a relationship.                                  *)
(***************************************************************************)
\* No token of the pool starts with "0x", which parseInt reads as
\* hexadecimal.
CardinalityChars == {"0", "1", "2", ".", "*", "n", "N", "m", " "}

\* The character sequences of length 1..n.
RECURSIVE TokensUpTo(_)
TokensUpTo(n) ==
    IF n = 0 THEN {}
    ELSE LET shorter == TokensUpTo(n - 1)
         IN  shorter \cup {<<c>> : c \in CardinalityChars} \cup
             {Append(t, c) : t \in {q \in shorter : Len(q) = n - 1},
                             c \in CardinalityChars}

InitParser ==
    /\ IdleInvitations
    /\ logicalModel \in
         {<<[elements |-> <<>>,
             relationships |->
                 <<Rel("r", "association", "e1", "e2", token, One)>>]>> :
             token \in TokensUpTo(MaxTokenLen)}
    /\ result = <<>>
    /\ IdleGenerator /\ IdleServer /\ now = 0

\* The two functions applied to the source multiplicity of the relationship.
ParseCardinality ==
    /\ result = <<>>
    /\ result' =
         <<[multiplicity |->
                parseMultiplicity(SourceCardOf(logicalModel[1].relationships[1])),
            optional |->
                isMultiplicityOptional(
                    SourceCardOf(logicalModel[1].relationships[1]))]>>
    /\ UNCHANGED <<logicalModel, prevModel, curModel, existingNames,
                   out1, out2, now, store, req, emitted,
                   invitation, calls>>

SpecParser == InitParser /\ [][ParseCardinality]_vars

(***************************************************************************)
(* Properties of the multiplicity parser (SpecParser).  A cardinality      *)
(* token is "*", "n", "N", a number, or a range min..max of a number and   *)
(* a number, "*", "n" or "N", with blanks allowed around each part.        *)
(***************************************************************************)
Token == Trim(SourceCardOf(logicalModel[1].relationships[1]))

IsNumber(cs) == cs # <<>> /\ \A i \in 1..Len(cs) : cs[i] \in Digits

IsUnbounded(cs) == cs \in {<<"*">>, <<"n">>, <<"N">>}

\* The parts of a token with exactly one "..", trimmed.
MinPart(cs) == Trim(SubSeq(cs, 1, DotDotAt(cs) - 1))

MaxPart(cs) == Trim(SubSeq(cs, DotDotAt(cs) + 2, Len(cs)))

IsRange(cs) ==
    /\ DotDotAt(cs) # 0
    /\ IsNumber(MinPart(cs))
    /\ IsNumber(MaxPart(cs)) \/ IsUnbounded(MaxPart(cs))

CanBeParsed(cs) == IsUnbounded(cs) \/ IsNumber(cs) \/ IsRange(cs)

\* The maximum of a token that can be parsed is above 1 or unbounded.
MaximumAboveOne(cs) ==
    \/ IsUnbounded(cs)
    \/ IsNumber(cs) /\ DigitsValue(cs, 0) > 1
    \/ /\ IsRange(cs)
       /\ \/ IsUnbounded(MaxPart(cs))
          \/ IsNumber(MaxPart(cs)) /\ DigitsValue(MaxPart(cs), 0) > 1

\* The minimum of a token that can be parsed is 0.
MinimumIsZero(cs) ==
    \/ IsNumber(cs) /\ DigitsValue(cs, 0) = 0
    \/ IsRange(cs) /\ DigitsValue(MinPart(cs), 0) = 0

Parsed == logicalModel # <<>> /\ result # <<>>

ClassifiedByBounds ==
    /\ result[1].multiplicity =
           (IF CanBeParsed(Token) /\ MaximumAboveOne(Token) THEN "many"
            ELSE "one")
    /\ result[1].optional =
           (CanBeParsed(Token) /\ (MinimumIsZero(Token) \/ Token = <<"*">>))

\* C25: for every cardinality token the parser returns "many" when the
\* maximum is above 1 or unbounded ("*", "n", "N") and "one" otherwise,
\* the token is optional exactly when its minimum is 0 or it is the bare
\* "*", and a token that cannot be parsed is "one" and not optional.
C25_MultiplicityByBounds == Parsed => ClassifiedByBounds

\* The statement of C25 for the tokens that can be parsed and do not start
\* with a 0 that is not their minimum.
C25_HoldsForPlainTokens ==
    (Parsed /\ CanBeParsed(Token) /\
     (Head(Token) = "0" => MinimumIsZero(Token))) => ClassifiedByBounds

\* The statement of C25 for the tokens without a digit and without "..".
C25_HoldsForTokensWithoutDigits ==
    (Parsed /\ DotDotAt(Token) = 0 /\
     \A i \in 1..Len(Token) : Token[i] \notin Digits) => ClassifiedByBounds

(***************************************************************************)
(* Properties of the choice between bootstrap and incremental migration    *)
(* (SpecGenerator)                                                         *)
(***************************************************************************)
\* The list holds the bootstrap migration and nothing else.
OneBootstrapMigration(migrations) ==
    /\ Len(migrations) = 1
    /\ migrations[1].version = 1
    /\ migrations[1].fileName = FileName(1, "initial_schema")
    /\ \E t \in 0..MaxClock :
          migrations[1] =
              generateInitialMigration(curModel, generateEntities(curModel),
                                       t)

\* The list is what the incremental path gives: nothing without changes,
\* otherwise the migration of the next version.
IncrementalOutcome(migrations) ==
    \E t \in 0..MaxClock :
        migrations =
            generateIncrementalMigration(prevModel[1], curModel,
                generateEntities(curModel), getNextVersion(existingNames), t)

\* C26: generateMigrations returns exactly one bootstrap migration, version
\* 1 in V1__initial_schema.sql, whenever no previous physical model is
\* supplied, whatever migration names are supplied, and also when a
\* previous model comes with an empty list of names; it takes the
\* incremental path when both a previous model and a non-empty list of
\* names are supplied, and only then.
C26_BootstrapUnlessBothSupplied ==
    out1 # <<>> =>
        IF prevModel # <<>> /\ existingNames # <<>>
        THEN IncrementalOutcome(out1[1])
        ELSE OneBootstrapMigration(out1[1])

\* A previous physical model was supplied with an empty list of migration
\* names, and V1 was emitted.
C26_Witness ==
    /\ out1 # <<>>
    /\ prevModel # <<>> /\ existingNames = <<>>
    /\ prevModel[1].tables # <<>>
    /\ OneBootstrapMigration(out1[1])

\* No previous model was supplied, the names of V1 and V3 were, and V1 was
\* emitted.
C26_WitnessNamesOnly ==
    /\ out1 # <<>>
    /\ prevModel = <<>> /\ Len(existingNames) = 2
    /\ OneBootstrapMigration(out1[1])

(***************************************************************************)
(* Properties of the cascade policy in the migrations (SpecGenerator)      *)
(***************************************************************************)
\* The first call returned a migration.
MigrationDone == out1 # <<>> /\ out1[1] # <<>>

\* The foreign keys of the current physical model on the column of the
\* table the statement names.
KeysOfStmt(stmt) ==
    IF ~HasTable(curModel.tables, stmt.table) THEN <<>>
    ELSE FindForeignKey(TableNamed(curModel, stmt.table), stmt.column)

CascadeAsInModel ==
    \A k \in 1..Len(Sql1) :
        Sql1[k].kind = "AddConstraint" =>
            /\ KeysOfStmt(Sql1[k]) # <<>>
            /\ (Sql1[k].onDelete = "CASCADE") <=>
                   (\E f \in Range(KeysOfStmt(Sql1[k])) :
                       f.onDelete = "CASCADE")

\* C27: a foreign-key constraint of a bootstrap or incremental migration
\* carries ON DELETE CASCADE if and only if the foreign key of the
\* physical model it is written from has onDelete = CASCADE.
C27_CascadeOnlyFromModel == MigrationDone => CascadeAsInModel

\* The statement of C27 for physical models all of whose foreign keys
\* cascade.
C27_HoldsWhenEveryKeyCascades ==
    (MigrationDone /\
     \A table \in Range(curModel.tables) :
         \A f \in Range(table.foreignKeys) : f.onDelete = "CASCADE") =>
        CascadeAsInModel

\* A migration with the constraint of a composition has been generated.
C27_CompositionEmitted ==
    /\ MigrationDone
    /\ \E k \in 1..Len(Sql1) : Sql1[k].kind = "AddConstraint"
    /\ \A table \in Range(curModel.tables) :
          \A f \in Range(table.foreignKeys) : f.onDelete = "CASCADE"

(***************************************************************************)
(* SpecInvitation: the methods of InvitationModel called on one            *)
(* invitation.  A call is split where its method awaits the database       *)
(* service; findInvitationById, getAllInvitations and                      *)
(* updateInvitationStatus are single statements of the database.           *)
(***************************************************************************)
InvitationOps == {"accept", "reject", "expire", "cleanupExpired"}

\* The status a method passes to updateInvitationStatus.
StatusOf(op) ==
    CASE op = "accept" -> "accepted"
      [] op = "reject" -> "rejected"
      [] OTHER         -> "expired"

\* DatabaseService.updateInvitationStatus at clock reading t: the row with
\* the id is updated whatever status it holds.
updateInvitationStatus(row, status, t) ==
    [row EXCEPT !.status = status,
                !.updatedAt = t,
                !.acceptedAt = IF status = "accepted" THEN <<t>> ELSE @,
                !.rejectedAt = IF status = "rejected" THEN <<t>> ELSE @]

CallDone(c) == calls[c].pc = "done"

InitInvitation ==
    /\ IdleTransform /\ IdleGenerator /\ IdleServer
    /\ \E expiresAt \in 0..MaxClock :
          invitation = <<[status |-> "pending", expiresAt |-> expiresAt,
                          updatedAt |-> 0, acceptedAt |-> <<>>,
                          rejectedAt |-> <<>>]>>
    /\ calls = <<>>
    /\ now = 0

\* A method is called: cleanupExpired starts with getAllInvitations, the
\* others with findInvitationById.
StartCall(op, limit) ==
    /\ Len(calls) < limit
    /\ calls' = Append(calls, [op |-> op,
                               pc |-> IF op = "cleanupExpired" THEN "list"
                                      ELSE "find"])
    /\ UNCHANGED <<logicalModel, result, prevModel, curModel, existingNames,
                   out1, out2, now, store, req, emitted, invitation>>

\* cleanupExpired: getAllInvitations answers; expire is called for the
\* invitation when it is pending and past its expiry.
ListInvitations(c) ==
    /\ calls[c].pc = "list"
    /\ calls' = [calls EXCEPT ![c].pc =
                    IF invitation[1].status = "pending" /\
                       invitation[1].expiresAt < now
                    THEN "find" ELSE "done"]
    /\ UNCHANGED <<logicalModel, result, prevModel, curModel, existingNames,
                   out1, out2, now, store, req, emitted, invitation>>

\* accept, reject, expire: findInvitationById answers; the method returns
\* null unless the status read is pending.
FindInvitation(c) ==
    /\ calls[c].pc = "find"
    /\ calls' = [calls EXCEPT ![c].pc =
                    IF invitation[1].status # "pending" THEN "done"
                    ELSE "update"]
    /\ UNCHANGED <<logicalModel, result, prevModel, curModel, existingNames,
                   out1, out2, now, store, req, emitted, invitation>>

\* updateInvitationStatus is executed.  What accept does afterwards (the
\* collaborators of the diagram) does not touch the invitation.
UpdateStatus(c) ==
    /\ calls[c].pc = "update"
    /\ invitation' = <<updateInvitationStatus(invitation[1],
                                              StatusOf(calls[c].op), now)>>
    /\ calls' = [calls EXCEPT ![c].pc = "done"]
    /\ UNCHANGED <<logicalModel, result, prevModel, curModel, existingNames,
                   out1, out2, now, store, req, emitted>>

CallStep ==
    \E c \in 1..Len(calls) :
        ListInvitations(c) \/ FindInvitation(c) \/ UpdateStatus(c)

\* Calls arrive at any time.
StartAny == \E op \in InvitationOps : StartCall(op, MaxConcurrent)

\* A call starts when every earlier one has returned.
StartNext ==
    /\ \A c \in 1..Len(calls) : CallDone(c)
    /\ \E op \in InvitationOps : StartCall(op, MaxRequests)

NextInvitation == StartAny \/ CallStep \/ Tick

SpecInvitation == InitInvitation /\ [][NextInvitation]_vars

NextInvitationSeq == StartNext \/ CallStep \/ Tick

SpecInvitationSeq == InitInvitation /\ [][NextInvitationSeq]_vars

(***************************************************************************)
(* Properties of the invitation status (SpecInvitation)                    *)
(***************************************************************************)
\* C30: the status of an invitation changes at most once: a step changes
\* it only when it is pending, so an invitation that is accepted, rejected
\* or expired keeps its status under every interleaving of accept, reject,
\* expire and cleanupExpired calls.
C30_StatusChangesOnlyFromPending ==
    [][invitation # <<>> /\ invitation' # <<>> /\
       invitation'[1].status # invitation[1].status =>
           invitation[1].status = "pending"]_vars

\* With calls that overlap, an invitation that was accepted is rejected
\* or expired afterwards.
C30_AcceptedThenChanged ==
    /\ invitation # <<>>
    /\ invitation[1].acceptedAt # <<>>
    /\ invitation[1].status \in {"rejected", "expired"}

====
